---- MODULE Spec2Model ----
(***************************************************************************)
(* Model of actual-auto-sync: the cron scheduler (cron.ts, index.ts) and   *)
(* the sync cycle (utils.ts).                                              *)
(*                                                                         *)
(* JavaScript runs one callback at a time, so every action below is one    *)
(* turn of the event loop: an awaited operation settles (resolved or       *)
(* rejected, chosen by the environment) and the code that follows runs up  *)
(* to the next await, where it calls the next operation.                   *)
(***************************************************************************)
EXTENDS Integers, Sequences, FiniteSets, TLC

\* ------------------------------------------------------------------ bounds
MaxTargets == 2      \* longest ACTUAL_BUDGET_SYNC_IDS list explored
MaxTicks == 2        \* onTick invocations explored (run-on-start included)
SchedTargets == 1    \* length of the sync-id list under the scheduler
MaxAccounts == 2     \* longest account list returned by getAccounts
MaxDirs == 2         \* longest listing of the data directory
CycleAccounts == 1   \* longest account list explored inside a sync cycle
CycleDirs == 1       \* longest directory listing explored inside a sync cycle

\* Mutant of MAX_BUDGET_SYNC_ATTEMPTS: one more attempt per budget.
ThreeAttempts == 2 + 1

\* ------------------------------------------------------- program constants
MAX_BUDGET_SYNC_ATTEMPTS == 2

IDs == {"b1", "b2"}
\* Entries of ENCRYPTION_PASSWORDS: the empty slot and a password.
Passwords == {"", "pw"}
Cycles == 1 .. MaxTicks

\* Operations that use the Actual API session (init, download, bank-sync,
\* push, shutdown); "resetShutdown" is the shutdown of the retry reset and
\* "emergencyShutdown" the one of the catch block of onTick.
RemoteOps ==
    {"init", "download", "bankSync", "push", "resetShutdown", "shutdown", "emergencyShutdown"}

VARIABLES
    syncIds,      \* env.ACTUAL_BUDGET_SYNC_IDS
    passwords,    \* env.ENCRYPTION_PASSWORDS
    cached,       \* the sync ids that have a local budget directory at startup
    cronRenders,  \* whether cronstrue.toString(env.CRON_SCHEDULE) returns
    runOnStart,   \* env.RUN_ON_START
    job,          \* the CronJob: "none", "started"
    ticks,        \* number of onTick invocations started so far
    sessionOpen,  \* an init resolved and no shutdown has resolved since
    cyc,          \* cyc[c]: the c-th sync() invocation and its caller
    scan,         \* a call of removeLocalBudgetCacheBySyncId on its own
    recon,        \* a call of syncAccountBalancesToCRDT on its own
    resolve       \* a call of getSyncIdMaps on its own

vars == <<syncIds, passwords, cached, cronRenders, runOnStart, job, ticks,
          sessionOpen, cyc, scan, recon, resolve>>
config == <<syncIds, passwords, cached, cronRenders, runOnStart>>
unit == <<scan, recon, resolve>>

\* The locals of a call of syncAccountBalancesToCRDT: the rows read, the row
\* whose update is awaited (at), the updates issued so far, hasSyncErrors, the
\* value returned, and the calls that rejected and the lines logged.
NoBalances ==
    [phase |-> "none", accounts |-> <<>>, at |-> 0, updates |-> <<>>,
     hasSyncErrors |-> FALSE, result |-> FALSE, rejected |-> {}, log |-> <<>>]

\* The locals of a call of removeLocalBudgetCacheBySyncId: the listing read,
\* the entry whose readFile or rm is awaited (at), the entries removed, the rm
\* calls made, and the calls that rejected and the lines logged.
NoScan ==
    [phase |-> "none", dirs |-> <<>>, at |-> 0, removed |-> {}, rmCalls |-> <<>>,
     rejected |-> {}, log |-> <<>>]

\* Per-target call counters of one cycle.
ZeroStat ==
    [dl |-> 0, bs |-> 0, bsSince |-> 0, push |-> 0, shut |-> 0, reopen |-> 0,
     fails |-> <<>>, outcome |-> "pending",
     dlArgs |-> <<>>,       \* the arguments of each downloadBudget call
     calls |-> <<>>,        \* the calls made for the target, in order
     evict |-> "none",      \* how the cache scan of the retry reset ended
     reopened |-> FALSE]    \* the re-open of the retry reset succeeded

\* A sync() invocation that has not been started.
IdleCycle(n) ==
    [pc |-> "idle", caller |-> "none", idx |-> 0, attempt |-> 0, inReset |-> FALSE,
     failedBudgets |-> <<>>, failedIdx |-> <<>>, errors |-> <<>>,
     inflight |-> {}, maxRemote |-> 0, stats |-> [t \in 1 .. n |-> ZeroStat],
     inits |-> 0, opened |-> FALSE, cleanups |-> 0, late |-> 0,
     result |-> "none", tick |-> "none", completions |-> 0, emergency |-> 0,
     callback |-> "none",   \* the onCompleteCallback passed to onTick
     trail |-> <<>>,        \* the calls made by the current session open
     denied |-> FALSE,      \* a permission check failed in this cycle
     lateDl |-> 0,          \* downloads called after a failed permission check
     resetErrs |-> {},      \* the calls that rejected in the retry reset of the current target
     balances |-> NoBalances, \* the locals of the pending syncAccountBalancesToCRDT
     cacheScan |-> NoScan,   \* the locals of the pending removeLocalBudgetCacheBySyncId
     rejected |-> {}, reconciled |-> <<>>, log |-> <<>>]

\* --------------------------------------------------------------- helpers
Log(r, level, msg, arg) == [r EXCEPT !.log = Append(@, <<level, msg, arg>>)]

Bump(r, f) == [r EXCEPT !.stats[r.idx][f] = @ + 1]

\* An operation in flight: its name and the target (list position) it is for.
Flight(r, op) == [op |-> op, t |-> r.idx]

\* Mutant of Settled: the call was not awaited, so it is still in flight when
\* the code after it runs.
SettledNotAwaited(r) == [r EXCEPT !.log = <<>>, !.rejected = {}, !.reconciled = <<>>]

\* The operation awaited at r.pc has settled: it is no longer in flight. The
\* log, the set of rejected calls and the reconciliation result are those of
\* the current turn only.
Settled(r) ==
    [r EXCEPT !.inflight = @ \ {Flight(r, r.pc)},
              !.log = <<>>, !.rejected = {}, !.reconciled = <<>>]

\* The awaited operation `op` (or one inside the awaited function) rejected.
Rejected(r, op) == [r EXCEPT !.rejected = @ \cup {op}]

\* The calls awaited inside syncAccountBalancesToCRDT and
\* removeLocalBudgetCacheBySyncId.
InnerOps == {"getAccounts", "update", "readdir", "readFile", "rm"}

\* A function of the attempt is entered: syncAccountBalancesToCRDT
\* ("reconcile") or removeLocalBudgetCacheBySyncId ("evict").
Enter(r, fn) == [r EXCEPT !.stats[r.idx].calls = Append(@, fn)]

\* `await op(...)`: the operation is invoked and the function suspends.
CallOp(r, op) ==
    LET fl == r.inflight \cup {Flight(r, op)}
        n == Cardinality({x \in fl : x.op \in RemoteOps})
    IN  [r EXCEPT !.pc = op,
                  !.stats = IF /\ r.idx \in DOMAIN r.stats
                               /\ op \notin {"shutdown", "emergencyShutdown"} \cup InnerOps
                            THEN [@ EXCEPT ![r.idx].calls = Append(@, op)]
                            ELSE @,
                  !.inflight = fl,
                  !.maxRemote = IF n > @ THEN n ELSE @,
                  !.late = IF r.cleanups > 0 /\ op \in RemoteOps THEN @ + 1 ELSE @,
                  !.trail = IF op \in {"mkdir", "access", "init"} THEN Append(@, op) ELSE @,
                  !.lateDl = IF r.denied /\ op = "download" THEN @ + 1 ELSE @]

\* `Failed to sync budget(s): ${failedBudgets.join(', ')}`
AggregatedError(failed) == [prefix |-> "Failed to sync budget(s): ", ids |-> failed]

\* ------------------------------------------------------------ sync cycle
\* shutdownApi, called from the finally block of sync.
CallShutdownApi(r) ==
    [CallOp(Log(r, "info", "Shutting down...", ""), "shutdown") EXCEPT !.cleanups = @ + 1]

\* The catch block of runSyncCycle.
CycleFailed(r) ==
    Log(Log(r, "error", "Error starting the service.", ""),
        "warn", "Sync cycle did not complete successfully.", "")

\* Mutant of Password: the password is looked up by sync id, at the first
\* position where the id of target `index` is configured.
PasswordBySyncId(index) ==
    LET first == CHOOSE k \in 1 .. index :
                     /\ syncIds[k] = syncIds[index]
                     /\ \A j \in 1 .. k - 1 : syncIds[j] # syncIds[index]
    IN  IF first <= Len(passwords) THEN passwords[first] ELSE "undefined"

\* env.ENCRYPTION_PASSWORDS[index]; positions are counted from 1 here.
Password(index) ==
    IF index <= Len(passwords) THEN passwords[index] ELSE "undefined"

\* The arguments of downloadBudget for the target at position `index`: the
\* options object is passed only when the password is truthy.
DownloadArguments(index) ==
    LET password == Password(index)
    IN  IF password \notin {"", "undefined"}
        THEN [budgetId |-> syncIds[index], options |-> <<[password |-> password]>>]
        ELSE [budgetId |-> syncIds[index], options |-> <<>>]

\* Mutant of StartDownload: a target whose sync id has a local budget
\* directory is loaded from it, without a download.
StartDownloadUnlessCached(r) ==
    IF syncIds[r.idx] \in cached
    THEN Bump(Bump(CallOp(Log(Log([r EXCEPT !.stats[r.idx].bsSince = 0],
                                  "info", "Loading budget", syncIds[r.idx]),
                              "info", "Syncing all accounts...", ""),
                          "bankSync"), "bs"), "bsSince")
    ELSE [Bump(CallOp(Log(r, "info", "Downloading budget", syncIds[r.idx]), "download"), "dl")
            EXCEPT !.stats[r.idx].dlArgs = Append(@, DownloadArguments(r.idx))]

\* One iteration of the attempt loop of downloadAndSyncBudget up to its first await.
StartDownload(r) ==
    [Bump(CallOp(Log(r, "info", "Downloading budget", syncIds[r.idx]), "download"), "dl")
        EXCEPT !.stats[r.idx].dlArgs = Append(@, DownloadArguments(r.idx))]

\* Mutant of FinishTargets: the summary error is not thrown.
FinishTargetsSilently(r) == CallShutdownApi(r)

\* The end of downloadConfiguredBudgets, then the rest of runSyncCycle and sync.
FinishTargets(r) ==
    IF Len(r.failedBudgets) > 0
    THEN CallShutdownApi(
             CycleFailed([r EXCEPT !.errors = Append(@, AggregatedError(r.failedBudgets))]))
    ELSE CallShutdownApi(r)

\* The for-of loop of downloadConfiguredBudgets moves to the next entry.
NextTarget(r) ==
    IF r.idx < Len(syncIds)
    THEN StartDownload([r EXCEPT !.idx = @ + 1, !.attempt = 1, !.resetErrs = {}])
    ELSE FinishTargets([r EXCEPT !.resetErrs = {}])

\* Mutant of TargetSucceeded: a budget that synced is downloaded once more
\* before the loop moves on.
TargetSucceededDownloadsAgain(r) ==
    IF r.stats[r.idx].dl = 1
    THEN StartDownload(r)
    ELSE NextTarget([r EXCEPT !.stats[r.idx].outcome = "ok"])

\* downloadAndSyncBudget returned normally.
TargetSucceeded(r) ==
    NextTarget([r EXCEPT !.stats[r.idx].outcome = "ok"])

\* Mutant of TargetFailed: the failed budget is pushed twice.
TargetFailedPushedTwice(r) ==
    NextTarget(Log([r EXCEPT !.failedBudgets = Append(Append(@, syncIds[r.idx]),
                                                     syncIds[r.idx]),
                             !.failedIdx = Append(Append(@, r.idx), r.idx),
                             !.stats[r.idx].outcome = "failed"],
                   "error", "Failed to sync budget after retries.", syncIds[r.idx]))

\* Mutant of TargetFailed: the error of a failed budget leaves the loop, so
\* the entries after it are not processed.
TargetFailedEndsLoop(r) ==
    FinishTargets(Log([r EXCEPT !.failedBudgets = Append(@, syncIds[r.idx]),
                                !.failedIdx = Append(@, r.idx),
                                !.stats[r.idx].outcome = "failed"],
                      "error", "Failed to sync budget after retries.", syncIds[r.idx]))

\* The catch block of downloadConfiguredBudgets.
TargetFailed(r) ==
    NextTarget(Log([r EXCEPT !.failedBudgets = Append(@, syncIds[r.idx]),
                             !.failedIdx = Append(@, r.idx),
                             !.stats[r.idx].outcome = "failed"],
                   "error", "Failed to sync budget after retries.", syncIds[r.idx]))

\* createDataDirAndInitApi up to its first await (mkdir).
StartOpen(r, reset) ==
    CallOp(Log([r EXCEPT !.inReset = reset, !.trail = <<>>],
               "info", "Creating data directory", ""), "mkdir")

\* resetApiSessionForRetry up to its first await (shutdown).
StartReset(r) ==
    Bump(CallOp(Log(r, "info", "Resetting Actual API session before retrying budget",
                    syncIds[r.idx]), "resetShutdown"), "shut")

\* Mutant of AttemptFailed: the budget is recorded as failed on every failed
\* attempt, also when a retry follows.
AttemptFailedRecordedEarly(r, step) ==
    LET r1 == Log([r EXCEPT !.stats[r.idx].fails = Append(@, step),
                            !.failedBudgets = Append(@, syncIds[r.idx]),
                            !.failedIdx = Append(@, r.idx)],
                  "error", "Error syncing budget", syncIds[r.idx])
    IN  IF r.attempt = MAX_BUDGET_SYNC_ATTEMPTS
        THEN NextTarget([r1 EXCEPT !.stats[r.idx].outcome = "failed"])
        ELSE StartReset(Log(r1, "warn", "Retrying budget sync after failure.",
                            syncIds[r.idx]))

\* Mutant of AttemptFailed: the session is reset after every failed attempt,
\* the last one included.
AttemptFailedAlwaysResets(r, step) ==
    StartReset(Log([r EXCEPT !.stats[r.idx].fails = Append(@, step),
                             !.stats[r.idx].calls = Append(@, "failed")],
                   "error", "Error syncing budget", syncIds[r.idx]))

\* Mutant of AttemptFailed: the retry is made without resetting the session.
AttemptFailedNoReset(r, step) ==
    LET r1 == Log([r EXCEPT !.stats[r.idx].fails = Append(@, step)],
                  "error", "Error syncing budget", syncIds[r.idx])
    IN  IF r.attempt = MAX_BUDGET_SYNC_ATTEMPTS
        THEN TargetFailed(r1)
        ELSE StartDownload([Log(r1, "warn", "Retrying budget sync after failure.",
                                syncIds[r.idx]) EXCEPT !.attempt = @ + 1])

\* The catch block of downloadAndSyncBudget: `step` is the call that rejected.
AttemptFailed(r, step) ==
    LET r1 == Log([r EXCEPT !.stats[r.idx].fails = Append(@, step),
                            !.stats[r.idx].calls = Append(@, "failed")],
                  "error", "Error syncing budget", syncIds[r.idx])
    IN  IF r.attempt = MAX_BUDGET_SYNC_ATTEMPTS
        THEN TargetFailed(r1)
        ELSE StartReset(Log(r1, "warn", "Retrying budget sync after failure.",
                            syncIds[r.idx]))

\* resetApiSessionForRetry returned: attempt++ and the loop condition.
AfterReset(r) ==
    LET r1 == [r EXCEPT !.attempt = @ + 1, !.inReset = FALSE,
                        !.stats[r.idx].reopened = TRUE]
    IN  IF r1.attempt <= MAX_BUDGET_SYNC_ATTEMPTS
        THEN StartDownload(r1)
        ELSE TargetSucceeded(r1)

\* runSyncCycle after createDataDirAndInitApi returned.
RunBudgets(r) ==
    IF cronRenders
    THEN NextTarget(Log([r EXCEPT !.idx = 0, !.failedBudgets = <<>>],
                        "info", "Scheduling sync to run", ""))
    ELSE CallShutdownApi(CycleFailed(r))

\* createDataDirAndInitApi returned.
OpenSucceeded(r) ==
    LET r1 == Log(r, "info", "Actual API initialized successfully.", "")
    IN  IF r.inReset THEN AfterReset(r1) ELSE RunBudgets([r1 EXCEPT !.opened = TRUE])

\* Mutant of OpenFailed: no finally block, so a failed initial open returns
\* without the cleanup shutdown.
OpenFailedNoCleanup(r) ==
    LET r1 == Log(r, "error", "Error initializing Actual API.", "")
    IN  IF r.inReset
        THEN TargetFailed([r1 EXCEPT !.inReset = FALSE])
        ELSE [CycleFailed(r1) EXCEPT !.pc = "settled", !.result = "resolved"]

\* Mutant of OpenFailed: runSyncCycle goes on to the budgets after a failed
\* initial open.
OpenFailedGoesOn(r) ==
    LET r1 == Log(r, "error", "Error initializing Actual API.", "")
    IN  IF r.inReset
        THEN TargetFailed([r1 EXCEPT !.inReset = FALSE])
        ELSE RunBudgets(r1)

\* createDataDirAndInitApi threw (its catch block logs and rethrows).
OpenFailed(r) ==
    LET r1 == Log(r, "error", "Error initializing Actual API.", "")
    IN  IF r.inReset
        THEN TargetFailed([r1 EXCEPT !.inReset = FALSE])
        ELSE CallShutdownApi(CycleFailed(r1))

\* sync() is called: it runs up to the mkdir of createDataDirAndInitApi.
StartSync(n, caller) ==
    StartOpen(Log([IdleCycle(n) EXCEPT !.caller = caller, !.result = "pending",
                                       !.tick = IF caller = "direct" THEN "none" ELSE "sync",
                                       !.callback = IF caller = "direct" THEN "none"
                                                    ELSE "onComplete"],
                  "info", "Starting service...", ""), FALSE)

\* --------------------------------------------------- balance reconciliation
\* An account row: balance_current is a number (value), null or absent.
Accounts ==
    {[id |-> i, kind |-> k, value |-> v] :
        i \in {"acc-1", "acc-2"}, k \in {"number"}, v \in {0, 7}}
    \cup {[id |-> i, kind |-> k, value |-> 0] :
        i \in {"acc-1", "acc-2"}, k \in {"null", "absent"}}

\* syncAccountBalancesToCRDT() is called: getAccountsForBalanceSync runs up to
\* `await internal.db.getAccounts()`.
CallBalances == [NoBalances EXCEPT !.phase = "getAccounts"]

RECURSIVE BalanceLoopTruthy(_, _)
\* Mutant of BalanceLoop: the balance is tested for truthiness, so a balance
\* of 0 is skipped.
BalanceLoopTruthy(b, i) ==
    IF i > Len(b.accounts)
    THEN [b EXCEPT !.phase = "returned", !.at = 0, !.result = ~b.hasSyncErrors]
    ELSE LET a == b.accounts[i]
         IN  IF a.kind # "number" \/ a.value = 0
             THEN BalanceLoopTruthy(b, i + 1)
             ELSE [b EXCEPT !.phase = "update", !.at = i,
                            !.updates = Append(@, [id |-> a.id,
                                                   balance_current |-> a.value])]

RECURSIVE BalanceLoop(_, _)
\* The for-of loop of syncAccountBalancesToCRDT from row i on, up to the next
\* await: rows without a numeric balance are passed over, the update of the
\* first numeric row is called; after the last row the function returns
\* !hasSyncErrors.
BalanceLoop(b, i) ==
    IF i > Len(b.accounts)
    THEN [b EXCEPT !.phase = "returned", !.at = 0, !.result = ~b.hasSyncErrors]
    ELSE LET a == b.accounts[i]
         IN  IF a.kind # "number"
             THEN BalanceLoop(b, i + 1)
             ELSE [b EXCEPT !.phase = "update", !.at = i,
                            !.updates = Append(@, [id |-> a.id,
                                                   balance_current |-> a.value])]

\* `await internal.db.getAccounts()` settles: a rejection is logged and
\* syncAccountBalancesToCRDT returns false; otherwise the loop starts.
GetAccountsSettled(b, readFailed, accounts) ==
    IF readFailed
    THEN [b EXCEPT !.phase = "returned", !.result = FALSE,
                   !.rejected = @ \cup {"getAccounts"},
                   !.log = Append(@, <<"error",
                                      "Error syncing account balances through CRDT", "">>)]
    ELSE BalanceLoop([b EXCEPT !.accounts = accounts], 1)

\* Mutant of UpdateSettled: the loop ends at the first update that rejects.
UpdateSettledStopsLoop(b, ok) ==
    IF ok
    THEN BalanceLoop(b, b.at + 1)
    ELSE [b EXCEPT !.phase = "returned", !.at = 0, !.hasSyncErrors = TRUE,
                   !.result = FALSE, !.rejected = @ \cup {"update"}]

\* `await internal.db.update('accounts', ...)` of row b.at settles
\* (syncAccountBalanceToCRDT): a rejection is logged and sets hasSyncErrors;
\* the loop goes on with the next row.
UpdateSettled(b, ok) ==
    IF ok
    THEN BalanceLoop(b, b.at + 1)
    ELSE BalanceLoop([b EXCEPT !.hasSyncErrors = TRUE,
                               !.rejected = @ \cup {"update"},
                               !.log = Append(@, <<"error",
                                   "Error syncing account balance through CRDT for account",
                                   b.accounts[b.at].id>>)],
                     b.at + 1)

\* ------------------------------------------------------------ cache reset
\* An entry of the data directory: a plain file, a directory whose
\* metadata.json cannot be read, a directory whose metadata.json is not
\* JSON, or a directory whose metadata.json has a groupId.
DirEntries ==
    {[isDir |-> FALSE, readable |-> FALSE, parses |-> FALSE, groupId |-> "-"],
     [isDir |-> TRUE, readable |-> FALSE, parses |-> FALSE, groupId |-> "-"],
     [isDir |-> TRUE, readable |-> TRUE, parses |-> FALSE, groupId |-> "-"]}
    \cup {[isDir |-> TRUE, readable |-> TRUE, parses |-> TRUE, groupId |-> g] :
            g \in IDs \cup {"other"}}

\* removeLocalBudgetCacheBySyncId(syncId) is called: it runs up to
\* `await readdir(ACTUAL_DATA_DIR, ...)`.
CallScan == [NoScan EXCEPT !.phase = "readdir"]

\* The catch block of maybeRemoveLocalBudgetCacheBySyncId.
SkipCandidate(s, syncId) ==
    [s EXCEPT !.log = Append(@, <<"debug",
        "Skipping local budget cache candidate due to unreadable metadata.", syncId>>)]

RECURSIVE CacheScan(_, _, _)
\* The loop of removeLocalBudgetCacheBySyncId from entry i on, up to the next
\* await: maybeRemoveLocalBudgetCacheBySyncId returns false at once for an
\* entry that is no directory and calls readFile for a directory; after the
\* last entry the warning is logged and the function returns.
CacheScan(s, i, syncId) ==
    IF i > Len(s.dirs)
    THEN [s EXCEPT !.phase = "returned", !.at = 0,
                   !.log = Append(@, <<"warn",
              "No local cache found for budget; retrying without deleting cache.", syncId>>)]
    ELSE IF ~s.dirs[i].isDir
    THEN CacheScan(s, i + 1, syncId)
    ELSE [s EXCEPT !.phase = "readFile", !.at = i]

\* `await readdir(ACTUAL_DATA_DIR, { withFileTypes: true })` settles: a
\* rejection is logged by the catch block of removeLocalBudgetCacheBySyncId,
\* which returns; otherwise the loop starts.
ReaddirSettled(s, syncId, readdirFails, dirs) ==
    IF readdirFails
    THEN [s EXCEPT !.phase = "returned", !.rejected = @ \cup {"readdir"},
                   !.log = Append(@, <<"error",
                                      "Error while removing local cache for budget", syncId>>)]
    ELSE CacheScan([s EXCEPT !.dirs = dirs], 1, syncId)

\* `await readFile(metadataPath, 'utf8')` of entry s.at settles, then
\* JSON.parse and the comparison of the groupId: a rejected read and a parse
\* error both end in the catch block; a directory of another budget is passed
\* over; for a match rm is called.
ReadFileSettled(s, syncId) ==
    LET d == s.dirs[s.at]
    IN  IF ~d.readable
        THEN CacheScan(SkipCandidate([s EXCEPT !.rejected = @ \cup {"readFile"}], syncId),
                       s.at + 1, syncId)
        ELSE IF ~d.parses
        THEN CacheScan(SkipCandidate(s, syncId), s.at + 1, syncId)
        ELSE IF d.groupId # syncId
        THEN CacheScan([s EXCEPT !.log = Append(@, <<"debug",
                            "Local budget metadata does not match sync ID during cache scan.",
                            syncId>>)],
                       s.at + 1, syncId)
        ELSE [s EXCEPT !.phase = "rm", !.rmCalls = Append(@, s.at),
                       !.log = Append(@, <<"info", "Removing local cache for budget",
                                           syncId>>)]

\* Mutant of RmSettled: the loop does not return after a removal.
RmSettledKeepsGoing(s, syncId, ok) ==
    IF ok
    THEN CacheScan([s EXCEPT !.removed = @ \cup {s.at}], s.at + 1, syncId)
    ELSE CacheScan(SkipCandidate([s EXCEPT !.rejected = @ \cup {"rm"}], syncId),
                   s.at + 1, syncId)

\* `await rm(budgetDirectoryPath, ...)` of entry s.at settles: after a removal
\* the scan returns; a rejection ends in the catch block of
\* maybeRemoveLocalBudgetCacheBySyncId and the loop goes on.
RmSettled(s, syncId, ok) ==
    IF ok
    THEN [s EXCEPT !.phase = "returned", !.at = 0, !.removed = @ \cup {s.at}]
    ELSE CacheScan(SkipCandidate([s EXCEPT !.rejected = @ \cup {"rm"}], syncId),
                   s.at + 1, syncId)

\* How a cache scan ended: "nothing" when the listing failed or no directory
\* matched the sync id, "matched" when rm was called on a directory.
ScanEnd(s) ==
    IF Len(s.rmCalls) = 0 THEN "nothing" ELSE "matched"

\* ---------------------------------------------------- sync id resolver
\* The line getSyncIdMaps logs when it is called, before its first await.
GettingMap == <<"info", "Getting sync id to budget id map...", "">>

\* The locals of a call of getSyncIdMaps: the tasks whose readFile is pending,
\* the object syncIdToBudgetId, whether the call rejected, the map it
\* returned, and the lines logged.
NoResolve ==
    [phase |-> "none", pending |-> {}, object |-> <<>>, rejected |-> FALSE,
     map |-> <<>>, log |-> <<>>]

\* getSyncIdMaps(dataDir) is called: it logs and runs up to the readdir of
\* listSubDirectories.
CallGetSyncIdMaps == [NoResolve EXCEPT !.phase = "readdir", !.log = <<GettingMap>>]

\* syncIdToBudgetId[groupId] = id, the id being the position of the directory.
SetEntry(object, groupId, id) ==
    [g \in DOMAIN object \cup {groupId} |-> IF g = groupId THEN id ELSE object[g]]

\* The end of the try block of getSyncIdMaps: Promise.all resolved.
MapCreated(v) ==
    [v EXCEPT !.phase = "returned", !.map = v.object,
              !.log = Append(@, <<"info",
                                 "Sync id to budget id map created successfully.", "">>)]

\* Mutant of MapRejected: the catch block logs the error and returns the map
\* built so far instead of rethrowing.
MapRejectedReturnsPartial(v) ==
    [v EXCEPT !.phase = "returned", !.map = v.object,
              !.log = Append(@, <<"error",
                                 "Error creating map from sync id to budget id", "">>)]

\* The catch block of getSyncIdMaps: the error is logged and rethrown.
MapRejected(v) ==
    [v EXCEPT !.phase = "returned", !.rejected = TRUE,
              !.log = Append(@, <<"error",
                                 "Error creating map from sync id to budget id", "">>)]

\* `await listSubDirectories(dataDir)` settles: one task per directory of the
\* listing calls readFile; Promise.all of no task resolves at once.
ListingSettled(v, readdirFails, dirs) ==
    LET subDirs == {i \in 1 .. Len(dirs) : dirs[i].isDir}
    IN  IF readdirFails THEN MapRejected(v)
        ELSE IF subDirs = {} THEN MapCreated(v)
        ELSE [v EXCEPT !.phase = "readFile", !.pending = subDirs]

\* Mutant of MetadataRead: a subdirectory whose metadata cannot be read or
\* parsed is skipped and the map of the others is returned.
MetadataReadSkipsBad(v, d, i) ==
    LET v1 == IF d.readable /\ d.parses
              THEN [v EXCEPT !.pending = @ \ {i},
                             !.object = SetEntry(@, d.groupId, i)]
              ELSE [v EXCEPT !.pending = @ \ {i}]
    IN  IF v.phase = "readFile" /\ v1.pending = {} THEN MapCreated(v1) ELSE v1

\* The readFile of the task of directory i (entry d) settles, then JSON.parse
\* and the assignment to syncIdToBudgetId. A rejected read or a parse error
\* rejects the task and with it Promise.all, unless the call has already
\* settled; the last task to succeed resolves Promise.all.
MetadataRead(v, d, i) ==
    IF ~(d.readable /\ d.parses)
    THEN IF v.phase = "readFile"
         THEN [MapRejected(v) EXCEPT !.pending = @ \ {i}]
         ELSE [v EXCEPT !.pending = @ \ {i}]
    ELSE LET v1 == [v EXCEPT !.pending = @ \ {i},
                             !.object = SetEntry(@, d.groupId, i)]
         IN  IF v.phase = "readFile" /\ v1.pending = {} THEN MapCreated(v1) ELSE v1

\* The orders in which the metadata reads of a listing can complete.
CompletionOrders ==
    {p \in [1 .. MaxDirs -> 1 .. MaxDirs] : \A a, b \in 1 .. MaxDirs : p[a] = p[b] => a = b}

\* Sequences over S of length lo .. hi.
SeqsOf(S, lo, hi) == UNION {[1 .. n -> S] : n \in lo .. hi}

\* No call of the function on its own.
NoCall == [phase |-> "none"]

\* ---------------------------------------------------------------- actions
Step(c, r) == cyc' = [cyc EXCEPT ![c] = r]

\* Mutant of SyncReturns: shutdownApi is not wrapped in try/catch.
SyncReturnsOrThrows(r, shutdownOk) ==
    IF shutdownOk
    THEN [Log(r, "info", "Shutdown complete.", "")
             EXCEPT !.pc = "settled", !.result = "resolved"]
    ELSE [Rejected(r, "shutdown") EXCEPT !.pc = "settled", !.result = "rejected"]

\* The end of sync(): the inner try/catch around shutdownApi, then return.
SyncReturns(r, shutdownOk) ==
    [(IF shutdownOk
      THEN Log(r, "info", "Shutdown complete.", "")
      ELSE Log(Rejected(r, "shutdown"), "error", "Error shutting down the service.", ""))
        EXCEPT !.pc = "settled", !.result = "resolved"]

\* await mkdir(ACTUAL_DATA_DIR, { recursive: true }) settles.
MkdirSettles(c) ==
    /\ cyc[c].pc = "mkdir"
    /\ \E ok \in BOOLEAN :
         LET r == Settled(cyc[c])
         IN  Step(c, IF ok
                     THEN CallOp(Log(Log(r, "info", "Data directory created successfully.", ""),
                                     "info", "Checking data directory write permission", ""),
                                 "access")
                     ELSE OpenFailed(Rejected(r, "mkdir")))
    /\ UNCHANGED <<config, unit, job, ticks, sessionOpen>>

\* await access(ACTUAL_DATA_DIR, R_OK | W_OK) settles (testDataDirPermission).
AccessSettles(c) ==
    /\ cyc[c].pc = "access"
    /\ \E ok \in BOOLEAN :
         LET r == Settled(cyc[c])
         IN  Step(c, IF ok
                     THEN [CallOp(Log(Log(r, "info", "Data directory permission correct", ""),
                                      "info", "Initializing Actual API...", ""), "init")
                              EXCEPT !.inits = @ + 1]
                     ELSE OpenFailed(Log([Rejected(r, "access") EXCEPT !.denied = TRUE],
                                         "error", "Data directory permission incorrect", "")))
    /\ UNCHANGED <<config, unit, job, ticks, sessionOpen>>

\* await init({...}) settles.
InitSettles(c) ==
    /\ cyc[c].pc = "init"
    /\ \E ok \in BOOLEAN :
         LET r == Settled(cyc[c])
         IN  /\ Step(c, IF ok THEN OpenSucceeded(r) ELSE OpenFailed(Rejected(r, "init")))
             /\ sessionOpen' = (ok \/ sessionOpen)
    /\ UNCHANGED <<config, unit, job, ticks>>

\* await downloadBudget(budgetId, ...) settles; syncAllAccounts calls runBankSync.
DownloadSettles(c) ==
    /\ cyc[c].pc = "download"
    /\ \E ok \in BOOLEAN :
         LET r == Settled(cyc[c])
             id == syncIds[r.idx]
         IN  Step(c, IF ok
                     THEN Bump(Bump(CallOp(
                              Log(Log(Log([r EXCEPT !.stats[r.idx].bsSince = 0],
                                  "info", "Budget downloaded successfully.", id),
                                  "info", "Syncing accounts for budget", id),
                                  "info", "Syncing all accounts...", ""),
                              "bankSync"), "bs"), "bsSince")
                     ELSE AttemptFailed(Rejected(r, "download"), "download"))
    /\ UNCHANGED <<config, unit, job, ticks, sessionOpen>>

\* Mutant of BankSyncSettles: a rejected bank-sync is logged and the attempt
\* goes on to the reconciliation and the push.
BankSyncSettlesSwallows(c) ==
    /\ cyc[c].pc = "bankSync"
    /\ \E ok \in BOOLEAN :
         LET r == Settled(cyc[c])
         IN  Step(c, CallOp(Log(IF ok THEN Enter(Log(r, "info", "All accounts synced.", ""),
                                                 "reconcile")
                                ELSE Enter(Log(Rejected(r, "bankSync"), "error",
                                               "Error syncing all accounts", ""),
                                           "reconcile"),
                                "info", "Syncing account balances through CRDT...", ""),
                            "getAccounts"))
    /\ UNCHANGED <<config, unit, job, ticks, sessionOpen>>

\* await runBankSync() settles (syncBankAccounts).
BankSyncSettles(c) ==
    /\ cyc[c].pc = "bankSync"
    /\ \E ok \in BOOLEAN :
         LET r == Settled(cyc[c])
         IN  Step(c, IF ok
                     THEN CallOp(Enter(Log(Log(r, "info", "All accounts synced.", ""),
                                           "info", "Syncing account balances through CRDT...",
                                           ""),
                                       "reconcile"),
                                 "getAccounts")
                     ELSE AttemptFailed(Rejected(r, "bankSync"), "bankSync"))
    /\ UNCHANGED <<config, unit, job, ticks, sessionOpen>>

\* Mutant of BalancesReturned: a reconciliation that returned false fails the
\* attempt instead of going on to the push.
BalancesReturnedStrict(r, b) ==
    LET r1 == [r EXCEPT !.balances = NoBalances,
                        !.reconciled = <<[result |-> b.result,
                                          updates |-> Len(b.updates)]>>]
    IN  IF b.result
        THEN Bump(CallOp(Log(r1, "info", "Syncing budget to server...", ""), "push"), "push")
        ELSE AttemptFailed(r1, "reconcile")

\* syncAllAccounts after syncAccountBalancesToCRDT returned b.result; then
\* syncBudgetToServer calls sync.
BalancesReturned(r, b) ==
    LET r1 == [r EXCEPT !.balances = NoBalances,
                        !.reconciled = <<[result |-> b.result,
                                          updates |-> Len(b.updates)]>>]
        r2 == IF b.result
              THEN Log(r1, "info", "Account balances synced through CRDT.", "")
              ELSE Log(r1, "info",
                       "Account balances sync through CRDT completed with errors.", "")
    IN  Bump(CallOp(Log(r2, "info", "Syncing budget to server...", ""), "push"), "push")

\* A turn of syncAccountBalancesToCRDT inside a cycle, b being its locals
\* after the turn with the lines logged and the call rejected in this turn:
\* the function awaits the next update or returns to syncAllAccounts.
BalancesTurn(r, b) ==
    LET r1 == [r EXCEPT !.log = b.log, !.rejected = b.rejected]
    IN  IF b.phase = "returned"
        THEN BalancesReturned(r1, b)
        ELSE CallOp([r1 EXCEPT !.balances = [b EXCEPT !.log = <<>>, !.rejected = {}]],
                    "update")

\* await internal.db.getAccounts() of getAccountsForBalanceSync settles.
GetAccountsSettles(c) ==
    /\ cyc[c].pc = "getAccounts"
    /\ \E readFailed \in BOOLEAN, accounts \in SeqsOf(Accounts, 0, CycleAccounts) :
         Step(c, BalancesTurn(Settled(cyc[c]),
                              GetAccountsSettled(CallBalances, readFailed, accounts)))
    /\ UNCHANGED <<config, unit, job, ticks, sessionOpen>>

\* await internal.db.update('accounts', ...) of syncAccountBalanceToCRDT settles.
UpdateSettles(c) ==
    /\ cyc[c].pc = "update"
    /\ \E ok \in BOOLEAN :
         Step(c, BalancesTurn(Settled(cyc[c]), UpdateSettled(cyc[c].balances, ok)))
    /\ UNCHANGED <<config, unit, job, ticks, sessionOpen>>

\* await syncBudget() settles (syncBudgetToServer), the last step of an attempt.
PushSettles(c) ==
    /\ cyc[c].pc = "push"
    /\ \E ok \in BOOLEAN :
         LET r == Settled(cyc[c])
         IN  Step(c, IF ok
                     THEN TargetSucceeded(
                              Log(Log(r, "info", "Budget synced to server successfully.", ""),
                                  "info", "Accounts synced successfully for budget",
                                  syncIds[r.idx]))
                     ELSE AttemptFailed(Rejected(r, "push"), "push"))
    /\ UNCHANGED <<config, unit, job, ticks, sessionOpen>>

\* Mutant of ResetShutdownSettles: the reset re-opens the session without
\* scanning the cache.
ResetShutdownSettlesNoEvict(c) ==
    /\ cyc[c].pc = "resetShutdown"
    /\ \E ok \in BOOLEAN :
         LET r == Settled(cyc[c])
         IN  /\ Step(c, Bump(StartOpen(
                               IF ok THEN r
                               ELSE Log(Rejected([r EXCEPT !.resetErrs = @ \cup {"resetShutdown"}],
                                                 "resetShutdown"),
                                        "error", "Error shutting down API during retry reset.",
                                        syncIds[r.idx]),
                               TRUE), "reopen"))
             /\ sessionOpen' = (~ok /\ sessionOpen)
    /\ UNCHANGED <<config, unit, job, ticks>>

\* await shutdown() of resetApiSessionForRetry settles; the cache scan starts.
ResetShutdownSettles(c) ==
    /\ cyc[c].pc = "resetShutdown"
    /\ \E ok \in BOOLEAN :
         LET r == Settled(cyc[c])
         IN  /\ Step(c, CallOp(Enter(IF ok THEN r
                                     ELSE Log(Rejected([r EXCEPT !.resetErrs =
                                                                    @ \cup {"resetShutdown"}],
                                                       "resetShutdown"),
                                              "error",
                                              "Error shutting down API during retry reset.",
                                              syncIds[r.idx]),
                                     "evict"),
                               "readdir"))
             /\ sessionOpen' = (~ok /\ sessionOpen)
    /\ UNCHANGED <<config, unit, job, ticks>>

\* resetApiSessionForRetry after removeLocalBudgetCacheBySyncId returned: the
\* session is re-opened.
ScanReturned(r, s) ==
    Bump(StartOpen([r EXCEPT !.cacheScan = NoScan, !.stats[r.idx].evict = ScanEnd(s)],
                   TRUE), "reopen")

\* A turn of removeLocalBudgetCacheBySyncId inside a cycle, s being its locals
\* after the turn with the lines logged and the call rejected in this turn:
\* the function awaits the next readFile or rm, or returns to
\* resetApiSessionForRetry.
ScanTurn(r, s) ==
    LET r1 == [r EXCEPT !.log = s.log, !.rejected = s.rejected,
                        !.resetErrs = @ \cup (s.rejected \cap {"rm"})]
    IN  IF s.phase = "returned"
        THEN ScanReturned(r1, s)
        ELSE CallOp([r1 EXCEPT !.cacheScan = [s EXCEPT !.log = <<>>, !.rejected = {}]],
                    s.phase)

\* await readdir(ACTUAL_DATA_DIR, { withFileTypes: true }) settles.
ReaddirSettles(c) ==
    /\ cyc[c].pc = "readdir"
    /\ \E readdirFails \in BOOLEAN, dirs \in SeqsOf(DirEntries, 0, CycleDirs) :
         Step(c, ScanTurn(Settled(cyc[c]),
                          ReaddirSettled(CallScan, syncIds[cyc[c].idx], readdirFails, dirs)))
    /\ UNCHANGED <<config, unit, job, ticks, sessionOpen>>

\* await readFile(metadataPath, 'utf8') of maybeRemoveLocalBudgetCacheBySyncId
\* settles.
ReadFileSettles(c) ==
    /\ cyc[c].pc = "readFile"
    /\ Step(c, ScanTurn(Settled(cyc[c]),
                        ReadFileSettled(cyc[c].cacheScan, syncIds[cyc[c].idx])))
    /\ UNCHANGED <<config, unit, job, ticks, sessionOpen>>

\* await rm(budgetDirectoryPath, ...) of maybeRemoveLocalBudgetCacheBySyncId
\* settles.
RmSettles(c) ==
    /\ cyc[c].pc = "rm"
    /\ \E ok \in BOOLEAN :
         Step(c, ScanTurn(Settled(cyc[c]),
                          RmSettled(cyc[c].cacheScan, syncIds[cyc[c].idx], ok)))
    /\ UNCHANGED <<config, unit, job, ticks, sessionOpen>>

\* ------------------------------------------------------------------ onTick
\* Mutant of OnCompleteCallback: the callback is not invoked.
OnCompleteNotCalled(r) == [r EXCEPT !.tick = "done"]

\* What onTick can be given as onCompleteCallback: the onComplete that
\* createCronJob wires, a callback that resolves, a callback that rejects.
Callbacks == {"onComplete", "resolves", "rejects"}

\* onComplete(cronJob): the next run is logged.
OnComplete(r) == Log(r, "info", "Cron job completed. Next run is in", "")

\* `await onCompleteCallback()`: the callback is invoked once; onTick returns
\* when it resolves and rejects when it rejects.
OnCompleteCallback(r) ==
    LET r1 == [r EXCEPT !.completions = @ + 1]
    IN  CASE r.callback = "onComplete" -> [OnComplete(r1) EXCEPT !.tick = "done"]
          [] r.callback = "resolves" -> [r1 EXCEPT !.tick = "done"]
          [] OTHER -> [Rejected(r1, "onCompleteCallback") EXCEPT !.tick = "rejected"]

\* The catch block of onTick up to its await: the error is logged and
\* shutdown() is called.
CallEmergencyShutdown(r) ==
    [CallOp(Log(r, "error", "Error running sync. Shutting down...", ""), "emergencyShutdown")
        EXCEPT !.emergency = @ + 1, !.tick = "shutdown"]

\* Mutant of OnTickAfterSync: onTick shuts the session down after every sync().
OnTickAlwaysShutsDown(r) ==
    IF r.tick # "sync" THEN r
    ELSE CallEmergencyShutdown([r EXCEPT !.pc = "returned"])

\* Mutant of OnTickAfterSync: the completion callback is also invoked at the
\* end of the try block, so a tick whose sync() resolved invokes it twice.
OnTickCallsBackTwice(r) ==
    IF r.tick # "sync" THEN r
    ELSE IF r.result # "rejected"
    THEN OnCompleteCallback(OnCompleteCallback([r EXCEPT !.pc = "returned"]))
    ELSE CallEmergencyShutdown([r EXCEPT !.pc = "returned"])

\* onTick in the turn in which its `await sync()` settles (r.tick is "sync"
\* when sync() was called by onTick): the completion callback when sync()
\* resolved, the catch block up to `await shutdown()` when it rejected.
OnTickAfterSync(r) ==
    IF r.tick # "sync" THEN r
    ELSE IF r.result # "rejected"
    THEN OnCompleteCallback([r EXCEPT !.pc = "returned"])
    ELSE CallEmergencyShutdown([r EXCEPT !.pc = "returned"])

\* Mutant of OnTickAfterShutdown: the emergency shutdown has a try/catch of
\* its own, so its rejection is logged and the completion callback still runs.
OnTickSwallowsShutdownError(r, shutdownOk) ==
    IF shutdownOk
    THEN OnCompleteCallback(Log(r, "info", "Shutdown complete.", ""))
    ELSE OnCompleteCallback(Log(Rejected(r, "emergencyShutdown"),
                                "error", "Error shutting down the service.", ""))

\* onTick in the turn in which the `await shutdown()` of its catch block
\* settles: "Shutdown complete." and the completion callback, or the
\* rejection of onTick.
OnTickAfterShutdown(r, shutdownOk) ==
    IF shutdownOk
    THEN OnCompleteCallback(Log(r, "info", "Shutdown complete.", ""))
    ELSE [Rejected(r, "emergencyShutdown") EXCEPT !.tick = "rejected"]

\* Mutant of JobAfterTick: an onTick that rejects, or that ends after a
\* failed cycle, takes the job down with it.
JobStoppedOnFailure(j, r) ==
    IF r.tick = "rejected" THEN "stopped"
    ELSE IF r.tick = "done" /\ r.caller \in {"runOnInit", "cronTime"}
            /\ r.pc = "returned" /\ r.cleanups > 0 /\ (r.errors # <<>> \/ ~r.opened)
    THEN "stopped"
    ELSE j

\* The CronJob after a turn of onTick, whatever the turn did (r): neither
\* onTick nor onComplete calls stop(); the promise of a rejected onTick is
\* awaited by nobody, and the 'unhandledRejection' and 'uncaughtException'
\* handlers of index.ts only log, so the process and its job go on.
JobAfterTick(j, r) == j

\* await shutdown() of shutdownApi settles and sync() returns; when onTick
\* awaits this sync(), it resumes in the same turn.
ShutdownSettles(c) ==
    /\ cyc[c].pc = "shutdown"
    /\ \E ok \in BOOLEAN :
         LET r == OnTickAfterSync(SyncReturns(Settled(cyc[c]), ok))
         IN  /\ Step(c, r)
             /\ sessionOpen' = (~ok /\ sessionOpen)
             /\ job' = JobAfterTick(job, r)
    /\ UNCHANGED <<config, unit, ticks>>

\* await shutdown() of the catch block of onTick settles.
EmergencyShutdownSettles(c) ==
    /\ cyc[c].pc = "emergencyShutdown"
    /\ \E ok \in BOOLEAN :
         LET r == OnTickAfterShutdown([Settled(cyc[c]) EXCEPT !.pc = "returned"], ok)
         IN  /\ Step(c, r)
             /\ sessionOpen' = (~ok /\ sessionOpen)
             /\ job' = JobAfterTick(job, r)
    /\ UNCHANGED <<config, unit, ticks>>

SyncStep(c) ==
    \/ MkdirSettles(c)
    \/ AccessSettles(c)
    \/ InitSettles(c)
    \/ DownloadSettles(c)
    \/ BankSyncSettles(c)
    \/ GetAccountsSettles(c)
    \/ UpdateSettles(c)
    \/ PushSettles(c)
    \/ ResetShutdownSettles(c)
    \/ ReaddirSettles(c)
    \/ ReadFileSettles(c)
    \/ RmSettles(c)
    \/ ShutdownSettles(c)

\* ---------------------------------------------------- one sync() invocation
\* sync() called directly, once, on a closed session.
Init ==
    /\ syncIds \in SeqsOf(IDs, 1, MaxTargets)
    /\ cronRenders \in BOOLEAN
    /\ passwords \in SeqsOf(Passwords, 0, MaxTargets)
    /\ cached = {}
    /\ runOnStart = FALSE
    /\ scan = NoCall
    /\ recon = NoCall
    /\ resolve = NoCall
    /\ job = "none"
    /\ ticks = 0
    /\ sessionOpen = FALSE
    /\ cyc = [c \in Cycles |->
                 IF c = 1 THEN StartSync(Len(syncIds), "direct")
                 ELSE IdleCycle(Len(syncIds))]

Next == \E c \in Cycles : SyncStep(c)

Spec == Init /\ [][Next]_vars

\* ------------------------------------------------------------- scheduler
\* The cron timer reaches a scheduled time: CronJob calls onTick(onComplete).
\* createCronJob sets no waitForCompletion, so the job does not look at
\* whether an earlier callback is still running.
CronFire ==
    /\ job = "started"
    /\ ticks < MaxTicks
    /\ ticks' = ticks + 1
    /\ cyc' = [cyc EXCEPT ![ticks + 1] = StartSync(Len(syncIds), "cronTime")]
    /\ UNCHANGED <<config, unit, job, sessionOpen>>

\* Mutant of Main: runOnInit is not passed to the job, so no cycle is started
\* at startup.
MainWithoutRunOnInit ==
    /\ job = "none"
    /\ job' = "started"
    /\ UNCHANGED <<config, unit, ticks, cyc, sessionOpen>>

\* index.ts: createCronJob(), then cronJob.start(). createCronJob passes
\* runOnInit: env.RUN_ON_START to CronJob.from, and a CronJob built with
\* runOnInit calls its onTick once while it is constructed; start() arms the
\* timer.
Main ==
    /\ job = "none"
    /\ job' = "started"
    /\ IF runOnStart
       THEN /\ ticks' = ticks + 1
            /\ cyc' = [cyc EXCEPT ![ticks + 1] = StartSync(Len(syncIds), "runOnInit")]
       ELSE UNCHANGED <<ticks, cyc>>
    /\ UNCHANGED <<config, unit, sessionOpen>>

\* What RUN_ON_START can be set to: unset, a boolean, or a string.
RunOnStartValues ==
    {[type |-> "undefined", text |-> ""]}
    \cup {[type |-> "boolean", text |-> t] : t \in {"true", "false"}}
    \cup {[type |-> "string", text |-> t] :
            t \in {"true", " TRUE ", "on", "yes", "1", "false", "off", "no", "0", "", "maybe"}}

\* value.trim().toLowerCase() on the strings of RunOnStartValues.
TrimLower(text) == IF text = " TRUE " THEN "true" ELSE text

\* runOnStartSchema: unset is false; a string is trimmed and lowercased;
\* true, 'on', 'yes', '1' and 'true' give true, everything else false.
RunOnStartSchema(value) ==
    CASE value.type = "undefined" -> FALSE
      [] value.type = "boolean" -> value.text = "true"
      [] OTHER -> TrimLower(value.text) \in {"on", "yes", "1", "true"}

\* The process before index.ts has run.
SchedInit ==
    /\ syncIds \in SeqsOf(IDs, 1, SchedTargets)
    /\ cronRenders \in BOOLEAN
    /\ passwords = <<>>
    /\ cached = {}
    /\ runOnStart \in {RunOnStartSchema(value) : value \in RunOnStartValues}
    /\ scan = NoCall
    /\ recon = NoCall
    /\ resolve = NoCall
    /\ job = "none"
    /\ ticks = 0
    /\ sessionOpen = FALSE
    /\ cyc = [c \in Cycles |-> IdleCycle(Len(syncIds))]

SchedNext ==
    \/ Main
    \/ CronFire
    \/ \E c \in Cycles : SyncStep(c)

SpecSched == SchedInit /\ [][SchedNext]_vars

\* -------------------------------------------- the cache reset on its own
\* removeLocalBudgetCacheBySyncId(syncId) called on a data directory whose
\* listing is `dirs`; readdir rejects when readdirFails, rm rejects for the
\* entries in rmFails.
CacheInit ==
    /\ syncIds = <<"b1">>
    /\ passwords = <<>>
    /\ cached = {}
    /\ cronRenders = TRUE
    /\ runOnStart = FALSE
    /\ job = "none"
    /\ ticks = 0
    /\ sessionOpen = FALSE
    /\ cyc = [c \in Cycles |-> IdleCycle(1)]
    /\ recon = NoCall
    /\ resolve = NoCall
    /\ \E syncId \in IDs, readdirFails \in BOOLEAN, dirs \in SeqsOf(DirEntries, 0, MaxDirs),
          rmFails \in SUBSET (1 .. MaxDirs) :
         scan = [phase |-> "readdir", syncId |-> syncId, readdirFails |-> readdirFails,
                 dirs |-> dirs, rmFails |-> rmFails, at |-> 0, removed |-> {},
                 rmCalls |-> <<>>, rejected |-> {}, log |-> <<>>]

\* await readdir(ACTUAL_DATA_DIR, { withFileTypes: true }) settles.
ScanReaddirSettles ==
    /\ scan.phase = "readdir"
    /\ scan' = ReaddirSettled(scan, scan.syncId, scan.readdirFails, scan.dirs)
    /\ UNCHANGED <<config, job, ticks, sessionOpen, cyc, recon, resolve>>

\* await readFile(metadataPath, 'utf8') settles.
ScanReadFileSettles ==
    /\ scan.phase = "readFile"
    /\ scan' = ReadFileSettled(scan, scan.syncId)
    /\ UNCHANGED <<config, job, ticks, sessionOpen, cyc, recon, resolve>>

\* await rm(budgetDirectoryPath, ...) settles.
ScanRmSettles ==
    /\ scan.phase = "rm"
    /\ scan' = RmSettled(scan, scan.syncId, scan.at \notin scan.rmFails)
    /\ UNCHANGED <<config, job, ticks, sessionOpen, cyc, recon, resolve>>

CacheNext ==
    \/ ScanReaddirSettles
    \/ ScanReadFileSettles
    \/ ScanRmSettles

SpecCache == CacheInit /\ [][CacheNext]_vars

\* ------------------------------------ the balance reconciliation on its own
\* syncAccountBalancesToCRDT() called on a budget whose accounts table is
\* `accounts`; getAccounts rejects when readFailed, update rejects for the
\* rows in updateFails.
BalancesInit ==
    /\ syncIds = <<"b1">>
    /\ passwords = <<>>
    /\ cached = {}
    /\ cronRenders = TRUE
    /\ runOnStart = FALSE
    /\ job = "none"
    /\ ticks = 0
    /\ sessionOpen = FALSE
    /\ cyc = [c \in Cycles |-> IdleCycle(1)]
    /\ scan = NoCall
    /\ resolve = NoCall
    /\ \E readFailed \in BOOLEAN, accounts \in SeqsOf(Accounts, 0, MaxAccounts),
          updateFails \in SUBSET (1 .. MaxAccounts) :
         recon = [phase |-> "getAccounts", readFailed |-> readFailed,
                  accounts |-> accounts, updateFails |-> updateFails, at |-> 0,
                  updates |-> <<>>, hasSyncErrors |-> FALSE, result |-> FALSE,
                  rejected |-> {}, log |-> <<>>]

\* await internal.db.getAccounts() settles.
BalancesGetAccountsSettles ==
    /\ recon.phase = "getAccounts"
    /\ recon' = GetAccountsSettled(recon, recon.readFailed, recon.accounts)
    /\ UNCHANGED <<config, job, ticks, sessionOpen, cyc, scan, resolve>>

\* await internal.db.update('accounts', ...) settles.
BalancesUpdateSettles ==
    /\ recon.phase = "update"
    /\ recon' = UpdateSettled(recon, recon.at \notin recon.updateFails)
    /\ UNCHANGED <<config, job, ticks, sessionOpen, cyc, scan, resolve>>

BalancesNext ==
    \/ BalancesGetAccountsSettles
    \/ BalancesUpdateSettles

SpecBalances == BalancesInit /\ [][BalancesNext]_vars

\* ------------------------------------------- the sync id resolver on its own
\* getSyncIdMaps(dataDir) called on a data directory whose listing is `dirs`;
\* the metadata reads of its subdirectories settle in the order `order`.
MapsInit ==
    /\ syncIds = <<"b1">>
    /\ passwords = <<>>
    /\ cached = {}
    /\ cronRenders = TRUE
    /\ runOnStart = FALSE
    /\ job = "none"
    /\ ticks = 0
    /\ sessionOpen = FALSE
    /\ cyc = [c \in Cycles |-> IdleCycle(1)]
    /\ scan = NoCall
    /\ recon = NoCall
    /\ \E readdirFails \in BOOLEAN, dirs \in SeqsOf(DirEntries, 0, MaxDirs),
          order \in CompletionOrders :
         resolve = [phase |-> "readdir", readdirFails |-> readdirFails, dirs |-> dirs,
                    order |-> order, pending |-> {}, object |-> <<>>,
                    rejected |-> FALSE, map |-> <<>>, log |-> <<GettingMap>>]

\* The pending metadata read that settles next: the first of `order`.
NextRead(v) ==
    v.order[CHOOSE k \in 1 .. MaxDirs :
                /\ v.order[k] \in v.pending
                /\ \A j \in 1 .. k - 1 : v.order[j] \notin v.pending]

\* await readdir(directory, { withFileTypes: true }) of listSubDirectories
\* settles.
MapsReaddirSettles ==
    /\ resolve.phase = "readdir"
    /\ resolve' = ListingSettled(resolve, resolve.readdirFails, resolve.dirs)
    /\ UNCHANGED <<config, job, ticks, sessionOpen, cyc, scan, recon>>

\* await readFile(join(dataDir, subDir, 'metadata.json'), 'utf8') of one task
\* settles; the reads still pending when getSyncIdMaps has rejected settle
\* afterwards.
MapsReadFileSettles ==
    /\ resolve.pending # {}
    /\ LET i == NextRead(resolve)
       IN  resolve' = MetadataRead(resolve, resolve.dirs[i], i)
    /\ UNCHANGED <<config, job, ticks, sessionOpen, cyc, scan, recon>>

MapsNext ==
    \/ MapsReaddirSettles
    \/ MapsReadFileSettles

SpecMaps == MapsInit /\ [][MapsNext]_vars

\* --------------------------------------- a cycle on a data directory with caches
\* sync() called once, with local budget directories for the sync ids in
\* `cached` already in the data directory.
CachedInit ==
    /\ syncIds \in SeqsOf(IDs, 1, MaxTargets)
    /\ passwords = <<>>
    /\ cached \in SUBSET IDs
    /\ cronRenders = TRUE
    /\ runOnStart = FALSE
    /\ scan = NoCall
    /\ recon = NoCall
    /\ resolve = NoCall
    /\ job = "none"
    /\ ticks = 0
    /\ sessionOpen = FALSE
    /\ cyc = [c \in Cycles |->
                 IF c = 1 THEN StartSync(Len(syncIds), "direct")
                 ELSE IdleCycle(Len(syncIds))]

SpecCached == CachedInit /\ [][Next]_vars

\* ------------------------------------------- a cycle whose calls all settle
\* sync() called once, without passwords and with a schedule that renders;
\* every call the cycle awaits settles, resolved or rejected.
LiveInit ==
    /\ syncIds \in SeqsOf(IDs, 1, MaxTargets)
    /\ passwords = <<>>
    /\ cached = {}
    /\ cronRenders = TRUE
    /\ runOnStart = FALSE
    /\ scan = NoCall
    /\ recon = NoCall
    /\ resolve = NoCall
    /\ job = "none"
    /\ ticks = 0
    /\ sessionOpen = FALSE
    /\ cyc = [c \in Cycles |->
                 IF c = 1 THEN StartSync(Len(syncIds), "direct")
                 ELSE IdleCycle(Len(syncIds))]

SpecLive == LiveInit /\ [][Next]_vars /\ WF_vars(Next)

\* ------------------------------------------------------- onTick on its own
\* onTick(callback) has called a sync() that is still pending, whatever
\* sync() is: onTick only awaits it.
AwaitingSync(n, callback) ==
    [IdleCycle(n) EXCEPT !.pc = "sync", !.caller = "cronTime", !.tick = "sync",
                         !.result = "pending", !.callback = callback]

\* onTick(onCompleteCallback) called for each tick with one of the callbacks,
\* on a session that is open or closed.
TickInit ==
    /\ syncIds \in SeqsOf(IDs, 1, MaxTargets)
    /\ passwords = <<>>
    /\ cached = {}
    /\ cronRenders = TRUE
    /\ runOnStart = FALSE
    /\ scan = NoCall
    /\ recon = NoCall
    /\ resolve = NoCall
    /\ job = "started"
    /\ ticks = MaxTicks
    /\ sessionOpen \in BOOLEAN
    /\ cyc \in [Cycles -> {AwaitingSync(Len(syncIds), callback) : callback \in Callbacks}]

\* `await sync()` of onTick settles, resolved or rejected, and onTick resumes.
SyncSettles(c) ==
    /\ cyc[c].pc = "sync"
    /\ \E result \in {"resolved", "rejected"} :
         LET r == OnTickAfterSync([cyc[c] EXCEPT !.pc = "settled", !.result = result,
                                                 !.log = <<>>, !.rejected = {}])
         IN  /\ Step(c, r)
             /\ job' = JobAfterTick(job, r)
    /\ UNCHANGED <<config, unit, ticks, sessionOpen>>

TickNext ==
    \/ \E c \in Cycles : SyncSettles(c)
    \/ \E c \in Cycles : EmergencyShutdownSettles(c)

SpecTick == TickInit /\ [][TickNext]_vars

\* ================================================================= claims
Targets == 1 .. Len(syncIds)

Count(seq, x) == Cardinality({k \in 1 .. Len(seq) : seq[k] = x})

Range(seq) == {seq[k] : k \in 1 .. Len(seq)}

RECURSIVE FailedIdsFrom(_, _)
\* The sync ids of the targets of cycle record r that ended failed, from
\* position t on, in configured order.
FailedIdsFrom(r, t) ==
    IF t > Len(syncIds) THEN <<>>
    ELSE IF r.stats[t].outcome = "failed"
    THEN <<syncIds[t]>> \o FailedIdsFrom(r, t + 1)
    ELSE FailedIdsFrom(r, t + 1)

\* The message each catch block logs for the call that rejected.
CatchMessage ==
    [op \in {"mkdir", "init"} |-> "Error initializing Actual API."]
    @@ [op \in {"access"} |-> "Data directory permission incorrect"]
    @@ [op \in {"download", "bankSync", "push"} |-> "Error syncing budget"]
    @@ [op \in {"resetShutdown"} |-> "Error shutting down API during retry reset."]
    @@ [op \in {"shutdown"} |-> "Error shutting down the service."]
    @@ [op \in {"readdir"} |-> "Error while removing local cache for budget"]
    @@ [op \in {"readFile", "rm"} |->
            "Skipping local budget cache candidate due to unreadable metadata."]
    @@ [op \in {"getAccounts"} |-> "Error syncing account balances through CRDT"]
    @@ [op \in {"update"} |-> "Error syncing account balance through CRDT for account"]

\* C1: no two sync cycles run concurrently: at no time have two sync()
\* invocations been started that have both not settled yet.
C1_NoOverlappingCycles ==
    \A a, b \in Cycles :
        a # b => ~(cyc[a].result = "pending" /\ cyc[b].result = "pending")

\* C2: within a cycle at most one remote operation is in flight, and the
\* targets are handled one at a time in configured order: when a download of
\* target t has been called, every target before t has been downloaded, has
\* ended, and has no download, bank-sync or push in flight.
C2_OneRemoteOpAtATime ==
    \A c \in Cycles :
        LET r == cyc[c]
        IN  /\ r.maxRemote <= 1
            /\ Cardinality({x \in r.inflight : x.op \in RemoteOps}) <= 1
            /\ \A t \in Targets :
                 r.stats[t].dl > 0 =>
                    \A u \in 1 .. t - 1 :
                        /\ r.stats[u].dl > 0
                        /\ r.stats[u].outcome # "pending"
                        /\ ~\E x \in r.inflight :
                              x.t = u /\ x.op \in {"download", "bankSync", "push"}

\* C2 witness: the download of target 2 is in flight after target 1 was
\* downloaded, bank-synced and pushed.
C2_Witness ==
    \E c \in Cycles :
        /\ Len(syncIds) >= 2
        /\ [op |-> "download", t |-> 2] \in cyc[c].inflight
        /\ cyc[c].stats[1].push > 0
        /\ cyc[c].stats[1].outcome = "ok"

\* C3: in every cycle whose initial session open succeeded, once the cycle has
\* reached its cleanup every configured target has had at least one download
\* attempt.
C3_EveryTargetAttempted ==
    \A c \in Cycles :
        (cyc[c].opened /\ cyc[c].cleanups > 0) =>
            \A t \in Targets : cyc[c].stats[t].dl >= 1

\* C3, the part the code keeps: when the schedule can be rendered, every
\* target is attempted whatever happened to the targets before it, and a
\* target none of whose calls rejected is downloaded, bank-synced and pushed.
C3_WhenScheduleRenders ==
    \A c \in Cycles :
        (cronRenders /\ cyc[c].opened /\ cyc[c].cleanups > 0) =>
            \A t \in Targets :
                /\ cyc[c].stats[t].dl >= 1
                /\ cyc[c].stats[t].fails = <<>> =>
                      /\ cyc[c].stats[t].outcome = "ok"
                      /\ cyc[c].stats[t].bs = 1
                      /\ cyc[c].stats[t].push = 1

\* C4: a target is downloaded at most 2 times in a cycle; a second download
\* is made only after the first attempt failed at download, bank-sync or
\* push; and once an attempt succeeded the target is not downloaded again.
C4_AtMostTwoAttempts ==
    /\ [](\A c \in Cycles : \A t \in Targets :
            LET st == cyc[c].stats[t]
            IN  /\ st.dl <= 2
                /\ st.dl >= 2 =>
                      /\ Len(st.fails) >= 1
                      /\ st.fails[1] \in {"download", "bankSync", "push"})
    /\ [][\A c \in Cycles : \A t \in Targets :
            cyc[c].stats[t].outcome = "ok" =>
                cyc'[c].stats[t].dl = cyc[c].stats[t].dl]_vars

\* C4 witness: a target whose two attempts both failed.
C4_Witness ==
    \E c \in Cycles : \E t \in Targets :
        cyc[c].stats[t].dl = 2 /\ Len(cyc[c].stats[t].fails) = 2

\* C5: a target whose first attempt failed and whose second succeeded has
\* exactly 2 download calls, exactly 1 bank-sync call since its last
\* download resolved, and no entry in the failed list.
C5_RetryThenSuccess ==
    \A c \in Cycles : \A t \in Targets :
        LET st == cyc[c].stats[t]
        IN  (st.outcome = "ok" /\ Len(st.fails) = 1) =>
                /\ st.dl = 2
                /\ st.bsSince = 1
                /\ Count(cyc[c].failedIdx, t) = 0
                /\ Len(cyc[c].failedBudgets) = Len(cyc[c].failedIdx)

\* C5 witness: a target that failed at bank-sync and then succeeded.
C5_Witness ==
    \E c \in Cycles : \E t \in Targets :
        /\ cyc[c].stats[t].outcome = "ok"
        /\ cyc[c].stats[t].fails = <<"bankSync">>

\* C6: a target whose two attempts both failed has exactly one entry in the
\* failure list of the cycle (and so in the aggregated error once raised) and
\* caused exactly one reset: one shutdown, then one re-open.
C6_ExhaustedTarget ==
    \A c \in Cycles : \A t \in Targets :
        LET r == cyc[c]
            st == r.stats[t]
        IN  /\ st.reopen <= st.shut
            /\ Len(st.fails) = 2 =>
                  /\ st.outcome = "failed"
                  /\ Count(r.failedIdx, t) = 1
                  /\ Len(r.failedBudgets) = Len(r.failedIdx)
                  /\ \A k \in 1 .. Len(r.failedIdx) :
                        r.failedBudgets[k] = syncIds[r.failedIdx[k]]
                  /\ r.errors # <<>> => r.errors[1].ids = r.failedBudgets
                  /\ st.shut = 1
                  /\ st.reopen = 1

\* C6 witness: the cycle raised its aggregated error with a target in it that
\* failed at download and, after the reset, at push.
C6_Witness ==
    \E c \in Cycles : \E t \in Targets :
        /\ cyc[c].stats[t].fails = <<"download", "push">>
        /\ cyc[c].errors # <<>>

\* C7 as stated: after the targets have been processed exactly one aggregated
\* error is raised iff some target ended failed; its message names the failed
\* sync ids in configured order and no sync id of a target that succeeded.
C7_NamesNoSucceededId ==
    \A c \in Cycles :
        LET r == cyc[c]
        IN  r.cleanups > 0 =>
                /\ Len(r.errors) = IF \E t \in Targets : r.stats[t].outcome = "failed"
                                   THEN 1 ELSE 0
                /\ r.errors # <<>> =>
                      /\ r.errors[1].ids = FailedIdsFrom(r, 1)
                      /\ \A t \in Targets :
                            r.stats[t].outcome = "ok" => syncIds[t] \notin Range(r.errors[1].ids)

\* C7 as amended: exactly one aggregated error is raised iff some target ended
\* failed; its message lists the sync id of every failed target, one entry
\* per failed target in configured order, and the sync id of a succeeded
\* target is listed only when another target with the same sync id failed.
C7_AggregatedError ==
    \A c \in Cycles :
        LET r == cyc[c]
        IN  r.cleanups > 0 =>
                /\ Len(r.errors) = IF \E t \in Targets : r.stats[t].outcome = "failed"
                                   THEN 1 ELSE 0
                /\ r.errors # <<>> =>
                      /\ r.errors[1].prefix = "Failed to sync budget(s): "
                      /\ r.errors[1].ids = FailedIdsFrom(r, 1)
                      /\ \A t \in Targets :
                            (r.stats[t].outcome = "ok" /\ syncIds[t] \in Range(r.errors[1].ids))
                                => \E u \in Targets :
                                      /\ u # t
                                      /\ syncIds[u] = syncIds[t]
                                      /\ r.stats[u].outcome = "failed"

\* C7 witness: an aggregated error was raised in a cycle of two targets with
\* different sync ids, one failed and one succeeded.
C7_Witness ==
    \E c \in Cycles :
        /\ Len(syncIds) = 2
        /\ syncIds[1] # syncIds[2]
        /\ cyc[c].stats[1].outcome = "ok"
        /\ cyc[c].stats[2].outcome = "failed"
        /\ cyc[c].errors = <<AggregatedError(<<syncIds[2]>>)>>

\* C8: every sync() invocation calls the cleanup shutdown exactly once: never
\* twice, no remote operation is called after it, it is called only when no
\* target is still being processed, and sync() does not settle without it.
C8_CleanupShutdownOnce ==
    \A c \in Cycles :
        LET r == cyc[c]
        IN  /\ r.cleanups <= 1
            /\ r.late = 0
            /\ r.result \in {"resolved", "rejected"} => r.cleanups = 1
            /\ r.cleanups = 1 =>
                  \A t \in Targets : r.stats[t].dl > 0 => r.stats[t].outcome # "pending"
            /\ r.pc = "shutdown" =>
                  r.cleanups = 1 /\ {x.op : x \in r.inflight} = {"shutdown"}

\* C8 witness: sync() has settled after its initial init rejected, and the
\* cleanup shutdown was called.
C8_Witness ==
    \E c \in Cycles :
        /\ cyc[c].pc = "settled"
        /\ cyc[c].inits = 1
        /\ ~cyc[c].opened
        /\ cyc[c].cleanups = 1

\* C9: sync() never rejects: when it settles it has resolved, whichever calls
\* rejected; and every call that rejected in a turn has the log entry of its
\* catch block in that turn.
C9_SyncNeverRejects ==
    \A c \in Cycles :
        LET r == cyc[c]
        IN  /\ r.result # "rejected"
            /\ r.pc = "settled" => r.result = "resolved"
            /\ \A op \in r.rejected :
                 \E k \in 1 .. Len(r.log) :
                    r.log[k][1] \in {"error", "debug"} /\ r.log[k][2] = CatchMessage[op]

\* C9 witness: sync() has resolved in the turn in which the cleanup shutdown
\* rejected, in a cycle with a failed target.
C9_Witness ==
    \E c \in Cycles :
        /\ cyc[c].result = "resolved"
        /\ "shutdown" \in cyc[c].rejected
        /\ cyc[c].failedBudgets # <<>>

\* C10: at most one session is open: init is never called while a session
\* opened by an earlier init has not been closed by a shutdown that resolved.
C10_SingleSession ==
    [][\A c \in Cycles : cyc'[c].inits > cyc[c].inits => ~sessionOpen]_vars

\* A directory whose metadata.json was read and parsed and whose groupId is
\* the sync id of the scan.
Matches(d, syncId) == d.isDir /\ d.readable /\ d.parses /\ d.groupId = syncId

\* C11: one cache reset deletes at most one directory; rm is called, and so a
\* directory is deleted, only for a directory whose metadata.json was read and
\* parsed and whose groupId equals the failing sync id; plain files and
\* directories with other or unreadable metadata are never deleted; nothing
\* is deleted when the listing fails or after a deletion succeeded.
C11_DeletesAtMostOneMatch ==
    scan.phase = "returned" =>
        LET out == scan
            called == Range(out.rmCalls)
        IN  /\ Cardinality(out.removed) <= 1
            /\ out.removed \subseteq called
            /\ called \subseteq DOMAIN scan.dirs
            /\ \A i \in called : Matches(scan.dirs[i], scan.syncId)
            /\ \A i \in DOMAIN scan.dirs :
                 ~Matches(scan.dirs[i], scan.syncId) => i \notin out.removed
            /\ \A i \in out.removed : \A j \in called : j <= i
            /\ scan.readdirFails => called = {}

\* C11 witness: the scan skipped a directory with unreadable metadata and
\* deleted the matching directory after it.
C11_Witness ==
    /\ scan.phase = "returned"
    /\ Len(scan.dirs) = 2
    /\ scan.dirs[1].isDir /\ ~scan.dirs[1].readable
    /\ scan.removed = {2}

\* A log entry of the current turn of cycle record r.
Logged(r, level, msg) ==
    \E k \in 1 .. Len(r.log) : r.log[k][1] = level /\ r.log[k][2] = msg

\* C12 as stated: when the cache scan of a reset finds no matching directory
\* or cannot list the data directory, it calls no rm, logs the fact, the
\* re-open of the session is started, and the target gets its second
\* download attempt.
C12_SecondAttemptAlways ==
    \A c \in Cycles : \A t \in Targets :
        LET r == cyc[c]
            st == r.stats[t]
        IN  st.evict = "nothing" =>
                /\ st.reopen = 1
                /\ (r.idx = t /\ r.pc = "mkdir" /\ r.inReset) =>
                      \/ Logged(r, "warn",
                           "No local cache found for budget; retrying without deleting cache.")
                      \/ Logged(r, "error", "Error while removing local cache for budget")
                /\ st.outcome # "pending" => st.dl = 2

\* C12, the part the code keeps: as above, with the second download attempt
\* made when the re-open of the session succeeds; when it fails the target
\* ends failed after one download.
C12_NothingToEvict ==
    \A c \in Cycles : \A t \in Targets :
        LET r == cyc[c]
            st == r.stats[t]
        IN  st.evict = "nothing" =>
                /\ st.reopen = 1
                /\ (r.idx = t /\ r.pc = "mkdir" /\ r.inReset) =>
                      \/ Logged(r, "warn",
                           "No local cache found for budget; retrying without deleting cache.")
                      \/ Logged(r, "error", "Error while removing local cache for budget")
                /\ st.reopened => st.dl = 2
                /\ (st.outcome # "pending" /\ ~st.reopened) =>
                      st.dl = 1 /\ st.outcome = "failed"

\* C12 witness: the cache scan of the reset of a target found nothing to
\* delete and the target then succeeded at its second attempt.
C12_Witness ==
    \E c \in Cycles : \E t \in Targets :
        /\ cyc[c].stats[t].evict = "nothing"
        /\ cyc[c].stats[t].dl = 2
        /\ cyc[c].stats[t].outcome = "ok"

\* C13: every session open calls mkdir, then the permission check, then
\* init; init is not called in an open whose permission check failed; and
\* after a failed permission check no download is called in that cycle.
C13_PermissionFailureFatal ==
    \A c \in Cycles :
        LET r == cyc[c]
        IN  /\ r.pc = "mkdir" => r.trail = <<"mkdir">>
            /\ r.pc = "access" => r.trail = <<"mkdir", "access">>
            /\ r.pc = "init" => r.trail = <<"mkdir", "access", "init">>
            /\ "access" \in r.rejected => r.trail = <<"mkdir", "access">>
            /\ r.denied => r.lateDl = 0

\* C13, the part the code keeps: the order of the calls of an open, no init
\* after a failed permission check in the same open, and no download at all
\* when the permission check of the initial open failed.
C13_InitialOpenFatal ==
    \A c \in Cycles :
        LET r == cyc[c]
        IN  /\ r.pc = "mkdir" => r.trail = <<"mkdir">>
            /\ r.pc = "access" => r.trail = <<"mkdir", "access">>
            /\ r.pc = "init" => r.trail = <<"mkdir", "access", "init">>
            /\ "access" \in r.rejected => r.trail = <<"mkdir", "access">>
            /\ (r.denied /\ r.inits = 0) => \A t \in Targets : r.stats[t].dl = 0

\* C14: every download call of the target at position t, the first attempt
\* and the retry alike, carries the sync id of position t, with the password
\* of position t when that entry is a non-empty string and with no options
\* argument otherwise, whatever passwords other positions with the same sync
\* id have.
C14_PasswordByPosition ==
    \A c \in Cycles : \A t \in Targets :
        LET st == cyc[c].stats[t]
        IN  /\ Len(st.dlArgs) = st.dl
            /\ \A k \in 1 .. Len(st.dlArgs) :
                 /\ st.dlArgs[k].budgetId = syncIds[t]
                 /\ st.dlArgs[k].options =
                       IF t <= Len(passwords) /\ passwords[t] # ""
                       THEN <<[password |-> passwords[t]]>>
                       ELSE <<>>

\* C14 witness: two targets with the same sync id; the first was downloaded
\* twice with its password, the second without a password argument.
C14_Witness ==
    \E c \in Cycles :
        /\ Len(syncIds) = 2
        /\ syncIds[1] = syncIds[2]
        /\ cyc[c].stats[1].dlArgs =
              << [budgetId |-> syncIds[1], options |-> <<[password |-> "pw"]>>],
                 [budgetId |-> syncIds[1], options |-> <<[password |-> "pw"]>>] >>
        /\ cyc[c].stats[2].dlArgs = << [budgetId |-> syncIds[2], options |-> <<>>] >>

\* The rows of an account list whose balance is a number, in list order.
NumberRows(accounts) == SelectSeq(accounts, LAMBDA a : a.kind = "number")

\* C15: for an account list that was read, reconciliation issues exactly one
\* update per account whose balance is a number, with the id and the balance
\* of that account, and no update for an account whose balance is null or
\* absent.
C15_OneUpdatePerNumber ==
    (recon.phase = "returned" /\ ~recon.readFailed) =>
        LET rows == NumberRows(recon.accounts)
        IN  recon.updates =
                [k \in 1 .. Len(rows) |->
                    [id |-> rows[k].id, balance_current |-> rows[k].value]]

\* C15 witness: a list with a balance of 0 and a null balance: one update,
\* for the account whose balance is 0.
C15_Witness ==
    /\ recon.phase = "returned"
    /\ ~recon.readFailed
    /\ Len(recon.accounts) = 2
    /\ recon.accounts[1].kind = "null"
    /\ recon.accounts[2].kind = "number" /\ recon.accounts[2].value = 0
    /\ recon.updates = <<[id |-> recon.accounts[2].id, balance_current |-> 0]>>

\* C16: when reading the accounts fails, reconciliation issues no update and
\* returns false, the push of the budget is called in the same attempt, and
\* the attempt is not counted as failed.
C16_ReadFailureStillPushes ==
    \A c \in Cycles :
        LET r == cyc[c]
        IN  "getAccounts" \in r.rejected =>
                /\ r.reconciled = <<[result |-> FALSE, updates |-> 0]>>
                /\ r.pc = "push"
                /\ [op |-> "push", t |-> r.idx] \in r.inflight
                /\ r.stats[r.idx].push >= 1
                /\ Len(r.stats[r.idx].fails) = r.attempt - 1
                /\ r.stats[r.idx].outcome = "pending"
                /\ Count(r.failedIdx, r.idx) = 0

\* C16 witness: the account read failed in the first attempt of a target
\* and its push is in flight.
C16_Witness ==
    \E c \in Cycles :
        /\ "getAccounts" \in cyc[c].rejected
        /\ cyc[c].attempt = 1
        /\ cyc[c].pc = "push"

\* The position among the updates of the update for row j of the list.
UpdateIndex(accounts, j) ==
    Cardinality({i \in 1 .. j : accounts[i].kind = "number"})

\* C17: an update that fails does not stop the loop: every account with a
\* number balance gets its update, in list order, also after a failed one;
\* and reconciliation returns false exactly when the account read failed or
\* an update failed.
C17_FailureDoesNotStopLoop ==
    recon.phase = "returned" =>
        LET accounts == recon.accounts
            failed == {i \in recon.updateFails :
                          i <= Len(accounts) /\ accounts[i].kind = "number"}
        IN  /\ ~recon.readFailed =>
                  \A j \in 1 .. Len(accounts) :
                      accounts[j].kind = "number" =>
                          /\ UpdateIndex(accounts, j) <= Len(recon.updates)
                          /\ recon.updates[UpdateIndex(accounts, j)].id = accounts[j].id
            /\ recon.result = ~(recon.readFailed \/ failed # {})

\* C17 witness: the update of the first of two accounts failed, the update
\* of the second was still issued, and reconciliation returned false.
C17_Witness ==
    /\ recon.phase = "returned"
    /\ ~recon.readFailed
    /\ recon.updateFails = {1}
    /\ Len(recon.accounts) = 2
    /\ Len(recon.updates) = 2
    /\ recon.updates[2].id = recon.accounts[2].id
    /\ recon.result = FALSE

\* A cycle that failed: its initial session open failed, or it raised the
\* aggregated error.
CycleHasFailed(r) == r.result # "none" /\ r.cleanups > 0 /\ (~r.opened \/ r.errors # <<>>)

\* A tick that has ended: onTick returned or rejected.
TickEnded(r) == r.tick \in {"done", "rejected"}

C19_CompletionOncePerTick ==
    \A c \in Cycles :
        LET r == cyc[c]
        IN  /\ r.completions <= 1
            /\ r.tick = "sync" => (r.completions = 0 /\ r.result = "pending")
            /\ r.tick \notin {"rejected", "shutdown"}
            /\ r.tick = "done" =>
                  /\ r.completions = 1
                  /\ r.result \in {"resolved", "rejected"}
                  /\ Logged(r, "info", "Cron job completed. Next run is in")

\* C19 witness: a tick whose cycle failed has ended with its completion
\* callback invoked.
C19_Witness ==
    \E c \in Cycles :
        /\ cyc[c].tick = "done"
        /\ cyc[c].errors # <<>>
        /\ cyc[c].completions = 1

\* C20 as stated: when a cycle fails, the failure reaches onTick, which logs
\* it and invokes an emergency shutdown.
C20_FailureReachesOnTick ==
    \A c \in Cycles :
        LET r == cyc[c]
        IN  (CycleHasFailed(r) /\ r.tick \in {"done", "rejected"}) =>
                /\ r.emergency = 1
                /\ Logged(r, "error", "Error running sync. Shutting down...")

\* C20 as amended: when a cycle fails, the failure is caught and logged
\* inside the cycle, the only shutdown is the cleanup shutdown of the cycle,
\* sync() resolves, and onTick logs no error and invokes no emergency
\* shutdown before the completion callback.
C20_FailureCaughtInCycle ==
    \A c \in Cycles :
        LET r == cyc[c]
        IN  CycleHasFailed(r) =>
                /\ r.pc = "shutdown" => Logged(r, "error", "Error starting the service.")
                /\ r.cleanups = 1
                /\ r.result \in {"pending", "resolved"}
                /\ r.emergency = 0
                /\ r.tick = "done" =>
                      /\ ~Logged(r, "error", "Error running sync. Shutting down...")
                      /\ r.completions = 1

\* C20 witness: a tick has ended whose cycle raised the aggregated error.
C20_Witness ==
    \E c \in Cycles :
        /\ cyc[c].tick = "done"
        /\ cyc[c].opened
        /\ cyc[c].errors = <<AggregatedError(<<syncIds[1]>>)>>

\* The cycles started by the runOnInit of the job, at startup.
StartupCycles == {c \in Cycles : cyc[c].caller = "runOnInit"}

\* C21: when RUN_ON_START is true exactly one cycle is started at startup:
\* it is running as soon as the job is started, before any scheduled fire,
\* and every cycle of a scheduled fire comes after it; when RUN_ON_START is
\* false no cycle is started at startup, and a cycle runs only once a
\* scheduled time has been reached.
C21_RunOnStartOnce ==
    /\ job = "none" => \A c \in Cycles : cyc[c].caller = "none"
    /\ (job = "started" /\ runOnStart) =>
          /\ StartupCycles = {1}
          /\ ticks >= 1
          /\ cyc[1].result # "none"
    /\ (job = "started" /\ ~runOnStart) =>
          /\ StartupCycles = {}
          /\ \A c \in Cycles : cyc[c].caller # "none" =>
                (cyc[c].caller = "cronTime" /\ c <= ticks)
          /\ ticks = 0 => \A c \in Cycles : cyc[c].caller = "none"
    /\ \A c \in Cycles :
         cyc[c].caller = "cronTime" =>
            /\ job = "started"
            /\ \A d \in StartupCycles : d < c
            /\ c - Cardinality(StartupCycles) \in 1 .. ticks

\* C21 witness: the startup cycle and then a cycle started by the first
\* scheduled fire.
C21_Witness ==
    /\ runOnStart
    /\ cyc[1].caller = "runOnInit"
    /\ cyc[2].caller = "cronTime"

RECURSIVE SumOver(_, _)
\* The sum of f[t] over the targets in S.
SumOver(f, S) ==
    IF S = {} THEN 0
    ELSE LET t == CHOOSE x \in S : TRUE IN f[t] + SumOver(f, S \ {t})

\* The number of calls of one kind made by cycle record r for all targets.
Total(r, kind) == SumOver([t \in Targets |-> r.stats[t][kind]], Targets)

\* C22: a cycle over two targets in which the download of the first rejected
\* once and then resolved, and nothing else failed, has made exactly 3
\* download calls, 2 bank-sync calls and 2 pushes, raised no aggregated error,
\* and called init 2 times and shutdown 2 times.
C22_RetryScenarioCounts ==
    \A c \in Cycles :
        LET r == cyc[c]
        IN  (/\ Len(syncIds) = 2
             /\ r.pc = "settled"
             /\ r.stats[1].fails = <<"download">> /\ r.stats[1].outcome = "ok"
             /\ r.stats[2].fails = <<>> /\ r.stats[2].outcome = "ok")
            => /\ Total(r, "dl") = 3
               /\ Total(r, "bs") = 2
               /\ Total(r, "push") = 2
               /\ r.errors = <<>> /\ r.failedBudgets = <<>>
               /\ r.inits = 2
               /\ Total(r, "shut") + r.cleanups = 2

\* C22 witness: the cycle over <<b1, b2>> has settled after the download of
\* b1 rejected once and b2 succeeded at once.
C22_Witness ==
    \E c \in Cycles :
        /\ syncIds = <<"b1", "b2">>
        /\ cyc[c].pc = "settled"
        /\ cyc[c].stats[1].fails = <<"download">> /\ cyc[c].stats[1].outcome = "ok"
        /\ cyc[c].stats[2].dl = 1 /\ cyc[c].stats[2].outcome = "ok"

\* The calls of an attempt, in the order the code makes them.
AttemptCalls == <<"download", "bankSync", "reconcile", "push">>

\* The calls made for a target between the failure of its first attempt and
\* its second download.
BetweenAttempts(st) ==
    LET first == CHOOSE k \in 1 .. Len(st.calls) : st.calls[k] = "failed"
        second == CHOOSE k \in first + 1 .. Len(st.calls) : st.calls[k] = "download"
    IN  SubSeq(st.calls, first + 1, second - 1)

\* C23 as stated: between the failed first attempt and the second download
\* the session is closed and re-opened (mkdir, permission check, init), and
\* only then the cache of the sync id is scanned.
C23_ResetThenEvict ==
    \A c \in Cycles : \A t \in Targets :
        cyc[c].stats[t].dl = 2 =>
            BetweenAttempts(cyc[c].stats[t]) =
                <<"resetShutdown", "mkdir", "access", "init", "evict">>

\* C23 as amended: between the failed first attempt and the second download
\* the session is closed, then the cache of the sync id is scanned, then the
\* session is re-opened (mkdir, permission check, init).
C23_EvictInsideReset ==
    \A c \in Cycles : \A t \in Targets :
        cyc[c].stats[t].dl = 2 =>
            BetweenAttempts(cyc[c].stats[t]) =
                <<"resetShutdown", "evict", "mkdir", "access", "init">>

\* C23 witness: the second download of a target whose first attempt failed
\* at push is in flight.
C23_Witness ==
    \E c \in Cycles : \E t \in Targets :
        /\ cyc[c].stats[t].fails = <<"push">>
        /\ cyc[c].stats[t].dl = 2
        /\ cyc[c].pc = "download"

\* C24: a target is recorded in the failed list of a cycle only after 2
\* download attempts have been made for it in that cycle, also when what
\* failed is the re-open of the session during the retry reset.
C24_FailedOnlyWhenExhausted ==
    \A c \in Cycles : \A t \in Targets :
        (Count(cyc[c].failedIdx, t) > 0 \/ cyc[c].stats[t].outcome = "failed") =>
            cyc[c].stats[t].dl = MAX_BUDGET_SYNC_ATTEMPTS

\* C24, the part the code keeps: a target is recorded as failed after 2
\* download attempts, or after 1 when the re-open of its retry reset failed.
C24_ExhaustedOrReopenFailed ==
    \A c \in Cycles : \A t \in Targets :
        LET st == cyc[c].stats[t]
        IN  (Count(cyc[c].failedIdx, t) > 0 \/ st.outcome = "failed") =>
                \/ st.dl = MAX_BUDGET_SYNC_ATTEMPTS /\ Len(st.fails) = 2
                \/ st.dl = 1 /\ Len(st.fails) = 1 /\ st.reopen = 1 /\ ~st.reopened

\* C25: the session is reset only on the retry path: the resets of a cycle
\* are as many as the targets whose first attempt failed, each reset comes
\* right after the first failed attempt of its target, none follows a
\* successful attempt or a failed final attempt, and each reset that has run
\* its course is a shutdown followed by a re-open.
C25_ResetOnlyOnRetry ==
    \A c \in Cycles :
        LET r == cyc[c]
        IN  /\ Total(r, "shut") = Cardinality({t \in Targets : Len(r.stats[t].fails) >= 1})
            /\ \A t \in Targets :
                 LET st == r.stats[t]
                     failures == {k \in 1 .. Len(st.calls) : st.calls[k] = "failed"}
                 IN  /\ st.shut = Count(st.calls, "resetShutdown")
                     /\ st.shut <= 1
                     /\ \A k \in 1 .. Len(st.calls) :
                          st.calls[k] = "resetShutdown" =>
                             k - 1 \in failures /\ \A j \in failures : j >= k - 1
                     /\ st.outcome = "ok" => st.calls[Len(st.calls)] = "push"
                     /\ Cardinality(failures) = 2 => st.calls[Len(st.calls)] = "failed"
                     /\ st.reopen <= st.shut
                     /\ st.outcome # "pending" => st.reopen = st.shut

\* C25 witness: a settled cycle whose first target succeeded at once, with
\* no reset, and whose second target failed both attempts, with one reset.
C25_Witness ==
    \E c \in Cycles :
        /\ Len(syncIds) = 2
        /\ cyc[c].pc = "settled"
        /\ cyc[c].stats[1].outcome = "ok" /\ cyc[c].stats[1].shut = 0
        /\ Len(cyc[c].stats[2].fails) = 2 /\ cyc[c].stats[2].shut = 1

\* ---- C26
\* The listed subdirectories whose metadata.json can be read and parsed.
ReadableSubDirs ==
    {i \in 1 .. Len(resolve.dirs) :
        resolve.dirs[i].isDir /\ resolve.dirs[i].readable /\ resolve.dirs[i].parses}

\* The listed subdirectories whose metadata.json cannot be read or parsed.
BadSubDirs ==
    {i \in 1 .. Len(resolve.dirs) :
        resolve.dirs[i].isDir /\ ~(resolve.dirs[i].readable /\ resolve.dirs[i].parses)}

\* C26 as stated: when the listing itself succeeds, getSyncIdMaps returns
\* the map built from the subdirectories whose metadata can be read and
\* parsed; a bad subdirectory does not abort the scan.
C26_BadDirectorySkipped ==
    (resolve.phase = "returned" /\ ~resolve.readdirFails)
        => /\ ~resolve.rejected
           /\ DOMAIN resolve.map = {resolve.dirs[i].groupId : i \in ReadableSubDirs}

\* C26 amended: getSyncIdMaps rejects, after logging an error, exactly when
\* the listing fails or some listed subdirectory's metadata cannot be read
\* or parsed; otherwise it returns a map whose keys are the group ids of all
\* the subdirectories, each mapped to a directory that carries that group id.
C26_BadDirectoryAborts ==
    resolve.phase = "returned"
        => /\ resolve.rejected <=> (resolve.readdirFails \/ BadSubDirs # {})
           /\ resolve.rejected
                => /\ resolve.map = <<>>
                   /\ \E k \in 1 .. Len(resolve.log) : resolve.log[k][1] = "error"
           /\ ~resolve.rejected
                => /\ DOMAIN resolve.map
                        = {resolve.dirs[i].groupId : i \in ReadableSubDirs}
                   /\ \A g \in DOMAIN resolve.map :
                        /\ resolve.map[g] \in ReadableSubDirs
                        /\ resolve.dirs[resolve.map[g]].groupId = g

\* C26 witness: a listing with one good and one bad subdirectory, and the
\* call rejected.
C26_Witness ==
    /\ resolve.phase = "returned"
    /\ ~resolve.readdirFails
    /\ ReadableSubDirs # {}
    /\ BadSubDirs # {}
    /\ resolve.rejected

\* ---- C27
\* C27 as stated: a target whose sync id already has a local budget
\* directory is never downloaded.
C27_CachedTargetNotDownloaded ==
    \A c \in Cycles : \A t \in DOMAIN cyc[c].stats :
        syncIds[t] \in cached => cyc[c].stats[t].dl = 0

\* C27 amended: every target the loop has reached is downloaded, whether or
\* not its sync id has a local budget directory: its first call is the
\* download, and every bank-sync comes right after a download of the same
\* attempt.
C27_EveryTargetDownloaded ==
    \A c \in Cycles : \A t \in DOMAIN cyc[c].stats :
        LET st == cyc[c].stats[t]
        IN  /\ (cyc[c].opened /\ t <= cyc[c].idx)
                => /\ st.dl >= 1
                   /\ st.calls[1] = "download"
            /\ \A k \in 1 .. Len(st.calls) :
                 st.calls[k] = "bankSync" => (k > 1 /\ st.calls[k - 1] = "download")

\* C27 witness: a target with a local budget directory was downloaded once
\* and synced.
C27_Witness ==
    \E t \in DOMAIN cyc[1].stats :
        /\ cyc[1].pc = "settled"
        /\ syncIds[t] \in cached
        /\ cyc[1].stats[t].dl = 1
        /\ cyc[1].stats[t].outcome = "ok"

\* ---- C28
\* The position in st.calls of the j-th "failed" mark.
RECURSIVE FailedMark(_, _, _)
FailedMark(calls, j, from) ==
    IF calls[from] = "failed"
    THEN IF j = 1 THEN from ELSE FailedMark(calls, j - 1, from + 1)
    ELSE FailedMark(calls, j, from + 1)

\* C28: within an attempt the calls are made in the order download,
\* bank-sync, reconciliation, push, each right after the one before it; the
\* call that rejects is the last of its attempt, so a rejected download is
\* followed by no bank-sync and a rejected bank-sync by no reconciliation
\* and no push: what follows is the reset of the retry or the next target.
C28_AttemptOrder ==
    \A c \in Cycles :
        LET r == cyc[c]
        IN  /\ \A t \in DOMAIN r.stats :
                 LET calls == r.stats[t].calls
                     fails == r.stats[t].fails
                 IN  /\ \A k \in 1 .. Len(calls) :
                          /\ calls[k] = "download" => (k = 1 \/ calls[k - 1] = "init")
                          /\ calls[k] = "bankSync" => (k > 1 /\ calls[k - 1] = "download")
                          /\ calls[k] = "reconcile" => (k > 1 /\ calls[k - 1] = "bankSync")
                          /\ calls[k] = "push" => (k > 1 /\ calls[k - 1] = "reconcile")
                          /\ (calls[k] = "failed" /\ k < Len(calls))
                                => calls[k + 1] = "resetShutdown"
                     /\ Count(calls, "failed") = Len(fails)
                     /\ \A j \in 1 .. Len(fails) :
                          LET k == FailedMark(calls, j, 1)
                          IN  k > 1 /\ calls[k - 1] = fails[j]
            /\ (r.rejected \cap {"download", "bankSync", "push"} # {})
                 => /\ r.pc \in {"resetShutdown", "download", "shutdown"}
                    /\ r.pc = "download" => r.stats[r.idx].calls = <<"download">>

\* C28 witness: a first attempt whose bank-sync rejected, followed by the
\* reset and a complete second attempt.
C28_Witness ==
    \E c \in Cycles : \E t \in DOMAIN cyc[c].stats :
        cyc[c].stats[t].calls =
            <<"download", "bankSync", "failed", "resetShutdown", "evict", "mkdir", "access",
              "init", "download", "bankSync", "reconcile", "push">>

\* ---- C29
\* C29: in a cycle whose initial open did not succeed no download, bank-sync
\* or push is called, and the turn in which the initial mkdir or init
\* rejects invokes the cleanup shutdown, once.
C29_FailedOpenSkipsBudgets ==
    \A c \in Cycles :
        LET r == cyc[c]
        IN  /\ ~r.opened
                => \A t \in DOMAIN r.stats :
                     /\ r.stats[t].dl = 0
                     /\ r.stats[t].bs = 0
                     /\ r.stats[t].push = 0
                     /\ r.stats[t].calls = <<>>
            /\ (~r.opened /\ r.rejected \cap {"mkdir", "init"} # {})
                => /\ r.pc = "shutdown"
                   /\ r.cleanups = 1
            /\ (~r.opened /\ r.pc = "settled") => r.cleanups = 1

\* C29 witness: sync() has settled after its initial mkdir rejected: init
\* was never called, no target was touched and the cleanup shutdown ran.
C29_Witness ==
    \E c \in Cycles :
        /\ cyc[c].pc = "settled"
        /\ ~cyc[c].opened
        /\ cyc[c].trail = <<"mkdir">>
        /\ cyc[c].inits = 0
        /\ cyc[c].cleanups = 1

\* ---- C30
\* The bounds of C30 on one cycle over N = Len(syncIds) targets: at most 2N
\* downloads and at most N session resets; once the cycle has settled after
\* a successful initial open, every target was downloaded at least once,
\* whatever happened to the targets before it.
C30_Bounds ==
    \A c \in Cycles :
        LET r == cyc[c]
        IN  /\ Total(r, "dl") <= 2 * Len(syncIds)
            /\ Total(r, "shut") <= Len(syncIds)
            /\ \A t \in DOMAIN r.stats :
                 /\ r.stats[t].dl <= MAX_BUDGET_SYNC_ATTEMPTS
                 /\ r.stats[t].shut <= MAX_BUDGET_SYNC_ATTEMPTS - 1
            /\ (r.pc = "settled" /\ r.opened)
                 => \A t \in DOMAIN r.stats : r.stats[t].dl >= 1

\* C30: when every awaited call settles, the cycle stays within the bounds
\* of C30_Bounds, reaches the cleanup shutdown and terminates.
C30_CycleTerminates ==
    /\ []C30_Bounds
    /\ <>(cyc[1].cleanups = 1)
    /\ <>(cyc[1].pc = "settled")

\* C30 witness: a settled cycle over two targets in which the first failed
\* on both attempts and the second was synced.
C30_Witness ==
    /\ Len(syncIds) = 2
    /\ cyc[1].pc = "settled"
    /\ cyc[1].stats[1].dl = 2
    /\ cyc[1].stats[1].outcome = "failed"
    /\ cyc[1].stats[2].outcome = "ok"
    /\ cyc[1].cleanups = 1

\* ---- C31
\* The positions of the listing whose directory carries the scanned sync id.
MatchingDirs == {i \in DOMAIN scan.dirs : Matches(scan.dirs[i], scan.syncId)}

\* C31 as stated: when two listed directories both carry the failing sync
\* id, one cache reset deletes exactly the first of them in listing order
\* and leaves the other in place.
C31_FirstMatchOnly ==
    (scan.phase = "returned" /\ ~scan.readdirFails /\ Cardinality(MatchingDirs) = 2)
        => scan.removed = {CHOOSE i \in MatchingDirs : \A j \in MatchingDirs : i <= j}

\* C31, the part the code keeps: with two matching directories the reset
\* deletes at most one of them, the first on which rm does not reject, and
\* calls rm on no directory after it.
C31_FirstRemovableMatch ==
    (scan.phase = "returned" /\ ~scan.readdirFails /\ Cardinality(MatchingDirs) = 2)
        => LET ok == MatchingDirs \ scan.rmFails
           IN  /\ ok = {} => scan.removed = {}
               /\ ok # {} => scan.removed = {CHOOSE i \in ok : \A j \in ok : i <= j}
               /\ \A i \in scan.removed : \A j \in Range(scan.rmCalls) : j <= i

\* ---- C32
\* C32 as stated: when the shutdown of a retry reset rejected, the target
\* does not end before its second download attempt was made.
C32_ShutdownErrorStillRetries ==
    [][\A c \in Cycles : \A t \in DOMAIN cyc[c].stats :
          (/\ t = cyc[c].idx
           /\ "resetShutdown" \in cyc[c].resetErrs
           /\ cyc[c].stats[t].outcome = "pending"
           /\ cyc'[c].stats[t].outcome # "pending")
              => cyc'[c].stats[t].dl = MAX_BUDGET_SYNC_ATTEMPTS]_vars

\* C32, the part the code keeps: the turn in which the shutdown of a retry
\* reset rejects logs the error and starts the cache eviction; the re-open
\* follows the eviction, and once the re-open has succeeded the second
\* download has been called.
C32_ShutdownErrorLogged ==
    \A c \in Cycles :
        LET r == cyc[c]
        IN  /\ "resetShutdown" \in r.rejected
                => /\ Logged(r, "error", "Error shutting down API during retry reset.")
                   /\ r.pc = "readdir"
                   /\ "resetShutdown" \in r.resetErrs
            /\ "resetShutdown" \in r.resetErrs
                => /\ r.stats[r.idx].shut = 1
                   /\ r.pc \notin {"readdir", "readFile", "rm"} => r.stats[r.idx].reopen = 1
                   /\ r.stats[r.idx].reopened => r.stats[r.idx].dl = MAX_BUDGET_SYNC_ATTEMPTS

\* ---- C33
\* C33: when sync() rejected, onTick logs the error and awaits shutdown();
\* when that shutdown rejects too, onTick rejects: it has called shutdown
\* once, and in that turn it logs neither "Shutdown complete." nor the next
\* run and does not invoke the completion callback; otherwise onTick rejects
\* only when the callback it invoked rejects, and when the shutdown resolves
\* the callback is invoked.
C33_ShutdownErrorRejectsTick ==
    \A c \in Cycles :
        LET r == cyc[c]
        IN  /\ r.tick = "shutdown"
                => /\ r.result = "rejected"
                   /\ r.pc = "emergencyShutdown"
                   /\ [op |-> "emergencyShutdown", t |-> r.idx] \in r.inflight
                   /\ r.emergency = 1
                   /\ r.completions = 0
                   /\ Logged(r, "error", "Error running sync. Shutting down...")
            /\ "emergencyShutdown" \in r.rejected
                => /\ r.result = "rejected"
                   /\ r.tick = "rejected"
                   /\ r.completions = 0
                   /\ r.emergency = 1
                   /\ r.inflight = {}
                   /\ ~Logged(r, "info", "Shutdown complete.")
                   /\ ~Logged(r, "info", "Cron job completed. Next run is in")
                   /\ "onCompleteCallback" \notin r.rejected
            /\ r.tick = "rejected"
                => \/ r.result = "rejected" /\ "emergencyShutdown" \in r.rejected
                   \/ r.callback = "rejects" /\ "onCompleteCallback" \in r.rejected
            /\ (r.pc = "returned" /\ r.result = "rejected"
                    /\ "emergencyShutdown" \notin r.rejected)
                => /\ r.tick = (IF r.callback = "rejects" THEN "rejected" ELSE "done")
                   /\ r.completions = 1
                   /\ Logged(r, "info", "Shutdown complete.")

\* C33 witness: onTick has rejected after sync() rejected and the emergency
\* shutdown rejected.
C33_Witness ==
    \E c \in Cycles :
        /\ cyc[c].pc = "returned"
        /\ cyc[c].result = "rejected"
        /\ "emergencyShutdown" \in cyc[c].rejected
        /\ cyc[c].tick = "rejected"

\* ---- C34
\* C34: onTick has called shutdown itself exactly when the sync() it awaited
\* rejected, and then once; a tick whose sync() resolved has called no
\* shutdown of its own, logged no error and invoked the completion callback
\* exactly once, in the turn in which sync() settled; while sync() is pending
\* nothing of this has happened.
C34_ShutdownOnlyAfterRejection ==
    \A c \in Cycles :
        LET r == cyc[c]
        IN  /\ r.emergency = (IF r.result = "rejected" THEN 1 ELSE 0)
            /\ r.result = "resolved"
                => /\ r.pc = "returned"
                   /\ r.tick = (IF r.callback = "rejects" THEN "rejected" ELSE "done")
                   /\ r.completions = 1
                   /\ r.rejected = (IF r.callback = "rejects"
                                    THEN {"onCompleteCallback"} ELSE {})
                   /\ r.inflight = {}
                   /\ ~Logged(r, "error", "Error running sync. Shutting down...")
            /\ r.result = "pending" => (r.completions = 0 /\ r.tick = "sync")
            /\ r.completions <= 1

\* C34 witness: of two ticks, one whose sync() resolved has completed without
\* a shutdown of its own, the other has shut down after its sync() rejected.
C34_Witness ==
    \E c, d \in Cycles :
        /\ cyc[c].pc = "returned" /\ cyc[c].result = "resolved"
        /\ cyc[c].emergency = 0 /\ cyc[c].completions = 1
        /\ cyc[d].pc = "returned" /\ cyc[d].result = "rejected"
        /\ cyc[d].emergency = 1 /\ cyc[d].completions = 1

\* ---- C35
\* C35: whenever the metadata file of a listed subdirectory cannot be read
\* or parsed, getSyncIdMaps rejects; it has logged the error and not the
\* success message, and it hands no map to its caller, whatever the other
\* subdirectories hold and in whatever order their reads completed.
C35_BadMetadataRejects ==
    (resolve.phase = "returned" /\ BadSubDirs # {})
        => /\ resolve.rejected
           /\ resolve.map = <<>>
           /\ resolve.log
                = << <<"info", "Getting sync id to budget id map...", "">>,
                     <<"error", "Error creating map from sync id to budget id", "">> >>

\* C35 witness: the metadata of the first subdirectory was read and parsed
\* before the read of the second one failed, and the call rejected.
C35_Witness ==
    /\ resolve.phase = "returned"
    /\ Len(resolve.dirs) = 2
    /\ resolve.order[1] = 1
    /\ 1 \in ReadableSubDirs
    /\ 2 \in BadSubDirs
    /\ resolve.rejected

\* ---- C36
\* C36 as stated: a cycle whose schedule rendering threw after a successful
\* open still downloads every configured budget, and has called init and the
\* cleanup shutdown when it settles.
C36_RenderFailureStillSyncs ==
    \A c \in Cycles :
        LET r == cyc[c]
        IN  (~cronRenders /\ r.opened /\ r.pc = "settled")
                => /\ r.inits >= 1
                   /\ r.cleanups = 1
                   /\ \A t \in DOMAIN r.stats : r.stats[t].dl >= 1

\* C36, the part the code keeps: such a cycle has called init once and the
\* cleanup shutdown once and sync() resolves; no budget is touched and the
\* failure is logged as a cycle that did not complete.
C36_RenderFailureEndsCycle ==
    \A c \in Cycles :
        LET r == cyc[c]
        IN  /\ (~cronRenders /\ r.opened /\ r.pc = "settled")
                => /\ r.inits = 1
                   /\ r.cleanups = 1
                   /\ r.result = "resolved"
            /\ ~cronRenders => \A t \in DOMAIN r.stats : r.stats[t].calls = <<>>
            /\ (~cronRenders /\ r.opened /\ r.pc = "shutdown")
                => Logged(r, "warn", "Sync cycle did not complete successfully.")

\* ---- C37
\* The calls that need an open session.
BudgetOps == {"download", "bankSync", "getAccounts", "update", "push"}

\* C37 as stated: download, bank-sync, reconciliation and push are in flight
\* only while the session is open.
C37_BudgetOpsNeedSession ==
    \A c \in Cycles : cyc[c].pc \in BudgetOps => sessionOpen

\* A target of cycle record r whose retry reset started a re-open that failed.
ReopenFailed(r) ==
    \E t \in DOMAIN r.stats :
        /\ r.stats[t].reopen = 1
        /\ ~r.stats[t].reopened
        /\ r.stats[t].outcome = "failed"

\* C37, the part the code keeps: as long as no re-open of a retry reset has
\* failed in the cycle, those calls are made on an open session.
C37_SessionOpenUnlessReopenFailed ==
    \A c \in Cycles :
        (cyc[c].pc \in BudgetOps /\ ~ReopenFailed(cyc[c])) => sessionOpen

\* ---- C38
\* Every target of cycle record r was synced and none of its attempts failed.
AllFirstAttempt(r) ==
    /\ r.opened
    /\ \A t \in DOMAIN r.stats : r.stats[t].outcome = "ok" /\ r.stats[t].fails = <<>>

\* C38: a cycle in which every target succeeded on its first attempt has
\* scanned and deleted no cache directory, has called init exactly once, no
\* shutdown but the cleanup shutdown, and that one once it is over, and for
\* each target exactly the calls download, bank-sync, reconciliation, push.
C38_CleanCycleCounts ==
    \A c \in Cycles :
        LET r == cyc[c]
        IN  AllFirstAttempt(r)
                => /\ r.inits = 1
                   /\ r.pc \in {"shutdown", "settled"}
                   /\ r.cleanups = 1
                   /\ r.failedBudgets = <<>>
                   /\ r.errors = <<>>
                   /\ \A t \in DOMAIN r.stats :
                        LET st == r.stats[t]
                        IN  /\ st.dl = 1 /\ st.bs = 1 /\ st.push = 1
                            /\ st.shut = 0 /\ st.reopen = 0
                            /\ st.evict = "none"
                            /\ st.calls = <<"download", "bankSync", "reconcile", "push">>

\* C38 witness: a settled cycle over two targets that both succeeded on
\* their first attempt.
C38_Witness ==
    \E c \in Cycles :
        /\ Len(syncIds) = 2
        /\ cyc[c].pc = "settled"
        /\ AllFirstAttempt(cyc[c])
        /\ Total(cyc[c], "dl") = 2

\* ---- C39
\* C39 as stated: each cycle counts attempts from 1 for every target,
\* whatever earlier cycles recorded, and the failed set of a cycle holds only
\* targets that used up their download attempts in that same cycle.
C39_CycleScopedAttempts ==
    \A c \in Cycles :
        LET r == cyc[c]
        IN  /\ \A t \in DOMAIN r.stats :
                 (r.idx = t /\ r.stats[t].dl = 1 /\ r.pc \in BudgetOps) => r.attempt = 1
            /\ \A k \in 1 .. Len(r.failedIdx) :
                 r.stats[r.failedIdx[k]].dl = MAX_BUDGET_SYNC_ATTEMPTS

\* C39, the part the code keeps: each cycle counts attempts from 1 and makes
\* at most MAX_BUDGET_SYNC_ATTEMPTS downloads per target of its own, whatever
\* the other cycles recorded, and its failed set holds only targets that
\* ended failed in that same cycle.
C39_CycleScopedState ==
    \A c \in Cycles :
        LET r == cyc[c]
        IN  /\ \A t \in DOMAIN r.stats :
                 /\ (r.idx = t /\ r.stats[t].dl = 1 /\ r.pc \in BudgetOps) => r.attempt = 1
                 /\ r.stats[t].dl <= MAX_BUDGET_SYNC_ATTEMPTS
            /\ \A k \in 1 .. Len(r.failedIdx) :
                 /\ r.stats[r.failedIdx[k]].outcome = "failed"
                 /\ r.stats[r.failedIdx[k]].dl >= 1
                 /\ r.failedBudgets[k] = syncIds[r.failedIdx[k]]
            /\ Len(r.failedBudgets) = Len(r.failedIdx)

\* C39 scenario: a cycle that recorded its target as failed is followed by a
\* cycle that downloaded the same target and synced it on the first attempt.
C39_FailedThenRetriedNextCycle ==
    /\ cyc[1].stats[1].outcome = "failed"
    /\ cyc[1].pc \in {"settled", "returned"}
    /\ cyc[2].stats[1].outcome = "ok"
    /\ cyc[2].stats[1].dl = 1

\* ---- C40
\* C40 as stated: when an rm of the cache scan of a retry reset rejected, the
\* target does not end before its second download attempt was made.
C40_RmErrorStillRetries ==
    [][\A c \in Cycles : \A t \in DOMAIN cyc[c].stats :
          (/\ t = cyc[c].idx
           /\ "rm" \in cyc[c].resetErrs
           /\ cyc[c].stats[t].outcome = "pending"
           /\ cyc'[c].stats[t].outcome # "pending")
              => cyc'[c].stats[t].dl = MAX_BUDGET_SYNC_ATTEMPTS]_vars

\* C40, the part the code keeps: the turn in which an rm of the cache scan
\* rejects does not fail the cycle or the target: the scan goes on with the
\* next directory or returns and the re-open is started; and once that
\* re-open has succeeded the second download has been called.
C40_RmErrorDoesNotPropagate ==
    \A c \in Cycles :
        LET r == cyc[c]
        IN  /\ "rm" \in r.rejected
                => /\ r.errors = <<>>
                   /\ r.stats[r.idx].outcome = "pending"
                   /\ \/ r.pc \in {"readFile", "rm"}
                      \/ /\ r.pc = "mkdir"
                         /\ r.inReset
                         /\ r.stats[r.idx].evict = "matched"
            /\ "rm" \in r.resetErrs
                => /\ r.pc \notin {"readFile", "rm"} => r.stats[r.idx].reopen = 1
                   /\ r.stats[r.idx].reopened => r.stats[r.idx].dl = MAX_BUDGET_SYNC_ATTEMPTS
====
